---- MODULE Spec2Model ----
(***************************************************************************)
(* Model of crypto-signal-bot:                                             *)
(*   src/analysis/signals.py            analyze, calculate_sr_distance_atr,*)
(*                                      analyze_multiple,                  *)
(*                                      format_analysis_report             *)
(*   src/analysis/indicators.py         calculate_ema_trend                *)
(*   src/analysis/support_resistance.py find_pivot_points, find_sr_levels, *)
(*                                      detect_sr_flip, get_nearest_sr     *)
(*   src/trading/binance_client.py      retry_on_error, place_market_order *)
(*   src/notifications/telegram_bot.py  handle_rate_limit, send_message,   *)
(*                                      send_photo                         *)
(*   src/main.py                        execute_trade, run_analysis,       *)
(*                                      run_continuous, main               *)
(*                                                                         *)
(* Prices, EMA values, ATR and RSI are floats in the code; here they are   *)
(* integers and every comparison the code makes is kept as it is written.  *)
(* Relative thresholds (0.015) are kept exactly by cross-multiplication.   *)
(***************************************************************************)
EXTENDS Integers, Sequences, FiniteSets

VARIABLES
    inp,        \* analyze: what analyze computes from the candle series
    results,    \* analyze: the results returned so far, in call order
    now,        \* the wall clock read by datetime.now()
    tin,        \* calculate_ema_trend: <<price, ema20, ema50, ema200>>
    tout,       \* calculate_ema_trend: the returned record
    fdf,        \* detect_sr_flip: the candle series df
    flevels,    \* detect_sr_flip: sr_levels
    fout,       \* detect_sr_flip: the returned record
    pin,        \* find_pivot_points: [df, left, right]
    pout,       \* find_pivot_points: the returned list of pivots
    lin,        \* find_sr_levels: [df, lookback]
    lpivots,    \* find_sr_levels: pivots, as the function leaves it
    lclusters,  \* find_sr_levels: clusters, as the function leaves it
    lout,       \* find_sr_levels: the returned sr_levels
    rin,        \* analyze, rule 6: [bullish, bearish, rsi] before the rule
    rout,       \* analyze, rule 6: the scoring state after the rule
    qin,        \* retry_on_error: [max_retries, delay, behaviour]
    qout,       \* retry_on_error: what one call of the wrapper did
    bin,        \* analyze_multiple, run_analysis: [symbols, outcomes, flags, client]
    bout,       \* what one call of analyze_multiple or of run_analysis did
    ein,        \* execute_trade: [symbol, result, PAPER_TRADING, client, notifier]
    eout,       \* execute_trade: what one call did
    nin,        \* send_message, send_photo: [method, api, photo_exists]
    nout,       \* send_message, send_photo: what one call did
    repin,      \* format_analysis_report: the result to format
    repout,     \* format_analysis_report: the report, or the exception
    mode,       \* main: "once" or "continuous" (args.once)
    pc,         \* main: where the program is
    shutdown_event, \* main.py: shutdown_event is set
    run_count,  \* run_continuous: run_count
    position,   \* run_analysis: symbols of the current run analysed so far
    runs,       \* symbols analysed by each run that has ended, in order
    waited,     \* run_continuous: interval waits that lasted the full interval
    set_at,     \* where the program was when shutdown_event was set
    cleaned     \* main: cleanup() was executed

analyzeVars == <<inp, results, now>>
trendVars == <<tin, tout>>
flipVars == <<fdf, flevels, fout>>
pivotVars == <<pin, pout>>
levelVars == <<lin, lpivots, lclusters, lout>>
rsiVars == <<rin, rout>>

analysisVars ==
    <<analyzeVars, trendVars, flipVars, pivotVars, levelVars, rsiVars>>

retryVars == <<qin, qout>>
batchVars == <<bin, bout>>
tradeVars == <<ein, eout>>
telegramVars == <<nin, nout>>
reportVars == <<repin, repout>>
loopVars ==
    <<mode, pc, shutdown_event, run_count, position, runs, waited, set_at,
      cleaned>>
orchestrationVars ==
    <<retryVars, batchVars, tradeVars, telegramVars, reportVars, loopVars>>

vars == <<analysisVars, orchestrationVars>>

(***************************************************************************)
(* Values shared by the operations                                         *)
(***************************************************************************)
\* Python None / pandas NaN for a numeric field (all real values are >= 0)
None == -1

NotCalled == [called |-> FALSE]
NoInput == [n |-> 0]

\* the variables of an operation that a specification does not exercise
AnalyzeIdle == inp = NoInput /\ results = <<>> /\ now = 0
TrendIdle == tin = <<>> /\ tout = NotCalled
FlipIdle == fdf = <<>> /\ flevels = <<>> /\ fout = NotCalled
PivotIdle == pin = NoInput /\ pout = NotCalled
LevelIdle ==
    lin = NoInput /\ lpivots = <<>> /\ lclusters = <<>> /\ lout = NotCalled
RsiIdle == rin = NoInput /\ rout = NotCalled
AnalysisIdle ==
    AnalyzeIdle /\ TrendIdle /\ FlipIdle /\ PivotIdle /\ LevelIdle /\ RsiIdle

RetryIdle == qin = NoInput /\ qout = NotCalled
BatchIdle == bin = NoInput /\ bout = NotCalled
TradeIdle == ein = NoInput /\ eout = NotCalled
TelegramIdle == nin = NoInput /\ nout = NotCalled
ReportIdle == repin = NoInput /\ repout = NotCalled
NotSet == [set |-> FALSE]
LoopIdle ==
    /\ mode = "None" /\ pc = "idle" /\ shutdown_event = FALSE
    /\ run_count = 0 /\ position = 0 /\ runs = <<>> /\ waited = 0
    /\ set_at = NotSet /\ cleaned = FALSE
OtherIdle == TelegramIdle /\ ReportIdle /\ LoopIdle
OrchestrationIdle == RetryIdle /\ BatchIdle /\ TradeIdle /\ OtherIdle

Min(a, b) == IF a <= b THEN a ELSE b
Max(a, b) == IF a >= b THEN a ELSE b
Abs(a) == IF a >= 0 THEN a ELSE -a

(***************************************************************************)
(* indicators.py: calculate_ema_trend                                      *)
(***************************************************************************)
\* variant: the undefined EMA200 is used as it is
Ema200Val_NoFallback(ema50, ema200) == ema200

\* ema200_val = ema200.iloc[-1] if not pd.isna(...) else ema50_val
Ema200Val(ema50, ema200) == IF ema200 = None THEN ema50 ELSE ema200

TrendRecord(t, s, e20, e50, e200) ==
    [trend |-> t, trend_score |-> s, ema20 |-> e20, ema50 |-> e50, ema200 |-> e200]

\* variant: a price above EMA50 with EMA20 not below EMA50 and the stack
\* not aligned is ranging (the third branch is missing)
calculate_ema_trend_NoPlainWeakUp(current_price, ema20_val, ema50_val, ema200_raw) ==
    LET ema200_val == Ema200Val(ema50_val, ema200_raw)
        R(t, s) == TrendRecord(t, s, ema20_val, ema50_val, ema200_val)
    IN  IF current_price > ema20_val /\ ema20_val > ema50_val /\ ema50_val > ema200_val
          THEN R("strong_up", 100)
        ELSE IF current_price > ema50_val /\ ema20_val < ema50_val
          THEN R("weak_up", 60)
        ELSE IF current_price < ema20_val /\ ema20_val < ema50_val /\ ema50_val < ema200_val
          THEN R("strong_down", 0)
        ELSE IF current_price < ema50_val /\ ema20_val > ema50_val
          THEN R("weak_down", 40)
        ELSE IF current_price < ema50_val
          THEN R("weak_down", 30)
        ELSE R("ranging", 50)

calculate_ema_trend(current_price, ema20_val, ema50_val, ema200_raw) ==
    LET ema200_val == Ema200Val(ema50_val, ema200_raw)
        R(t, s) == TrendRecord(t, s, ema20_val, ema50_val, ema200_val)
    IN  IF current_price > ema20_val /\ ema20_val > ema50_val /\ ema50_val > ema200_val
          THEN R("strong_up", 100)
        ELSE IF current_price > ema50_val /\ ema20_val < ema50_val
          THEN R("weak_up", 60)
        ELSE IF current_price > ema50_val
          THEN R("weak_up", 70)
        ELSE IF current_price < ema20_val /\ ema20_val < ema50_val /\ ema50_val < ema200_val
          THEN R("strong_down", 0)
        ELSE IF current_price < ema50_val /\ ema20_val > ema50_val
          THEN R("weak_down", 40)
        ELSE IF current_price < ema50_val
          THEN R("weak_down", 30)
        ELSE R("ranging", 50)

(***************************************************************************)
(* signals.py: calculate_sr_distance_atr                                   *)
(***************************************************************************)
\* distance_atr = distance / atr; "<= 0.5" is 2*distance <= atr
calculate_sr_distance_atr(current_price, level, atr) ==
    IF level = None \/ atr = 0
      THEN [present |-> FALSE]
      ELSE LET distance == Abs(current_price - level)
           IN  [present |-> TRUE,
                level |-> level,
                distance |-> distance,
                proximity |-> IF 2 * distance <= atr THEN "very_close"
                              ELSE IF distance <= atr THEN "close"
                              ELSE "far"]

(***************************************************************************)
(* signals.py: analyze, the scoring rules                                  *)
(* A scoring state is [bullish, bearish, reasons, warnings].               *)
(***************************************************************************)
Scoring0 == [bullish |-> 0, bearish |-> 0, reasons |-> <<>>, warnings |-> <<>>]

Bull(s, pts, reason) ==
    [s EXCEPT !.bullish = @ + pts, !.reasons = Append(@, reason)]
Bear(s, pts, reason) ==
    [s EXCEPT !.bearish = @ + pts, !.reasons = Append(@, reason)]
Reason(s, reason) == [s EXCEPT !.reasons = Append(@, reason)]
Warn(s, warning) == [s EXCEPT !.warnings = Append(@, warning)]

\* 1. TREND ANALYSIS
Rule1Trend(s, trend) ==
    IF trend = "strong_up" THEN Bull(s, 30, "Strong uptrend (EMA stack aligned)")
    ELSE IF trend = "weak_up" THEN Bull(s, 15, "Weak uptrend")
    ELSE IF trend = "strong_down" THEN Bear(s, 30, "Strong downtrend (EMA stack aligned)")
    ELSE IF trend = "weak_down" THEN Bear(s, 15, "Weak downtrend")
    ELSE Reason(s, "Ranging/Sideways market")

\* 2. S/R FLIP DETECTION
Rule2Flip(s, sr_flip) ==
    IF sr_flip.flip_detected
      THEN IF sr_flip.flip_type = "bullish"
             THEN Bull(s, 25, "Bullish S/R flip")
             ELSE Bear(s, 25, "Bearish S/R flip")
      ELSE s

\* 3. S/R PROXIMITY
ProximityPoints(info) == IF info.proximity = "very_close" THEN 20 ELSE 12

Rule3Support(s, support_info) ==
    IF support_info.present /\ support_info.proximity \in {"very_close", "close"}
      THEN Bull(s, ProximityPoints(support_info), "Near support")
      ELSE s

Rule3Resistance(s, resistance_info) ==
    IF resistance_info.present /\ resistance_info.proximity \in {"very_close", "close"}
      THEN Bear(s, ProximityPoints(resistance_info), "Near resistance")
      ELSE s

\* 4. MACD ANALYSIS
Rule4MACD(s, macd_data) ==
    IF macd_data.status = "bullish"
      THEN LET s1 == Bull(s, 10, "MACD bullish")
           IN  IF macd_data.crossover = "bullish"
                 THEN Bull(s1, 5, "MACD bullish crossover!")
                 ELSE s1
    ELSE IF macd_data.status = "bearish"
      THEN LET s1 == Bear(s, 10, "MACD bearish")
           IN  IF macd_data.crossover = "bearish"
                 THEN Bear(s1, 5, "MACD bearish crossover!")
                 ELSE s1
    ELSE s

\* variant: on a tie high volume goes to the bullish side
Rule5Volume_TieToBullish(s, volume_status) ==
    IF volume_status = "high"
      THEN LET s1 == IF s.bullish >= s.bearish THEN [s EXCEPT !.bullish = @ + 10]
                     ELSE [s EXCEPT !.bearish = @ + 10]
           IN  Reason(s1, "High volume")
    ELSE IF volume_status = "low"
      THEN Warn(s, "Low volume - weak conviction")
    ELSE s

\* 5. VOLUME CONFIRMATION
Rule5Volume(s, volume_status) ==
    IF volume_status = "high"
      THEN LET s1 == IF s.bullish > s.bearish THEN [s EXCEPT !.bullish = @ + 10]
                     ELSE IF s.bearish > s.bullish THEN [s EXCEPT !.bearish = @ + 10]
                     ELSE s
           IN  Reason(s1, "High volume")
    ELSE IF volume_status = "low"
      THEN Warn(s, "Low volume - weak conviction")
    ELSE s

\* variant: the pullback warning is decided before the 5 points are added
Rule6RSI_WarnBeforeAdding(s, rsi) ==
    IF 40 <= rsi /\ rsi <= 60 THEN Reason(s, "RSI neutral - room to move")
    ELSE IF rsi < 30 THEN Bull(s, 10, "RSI oversold")
    ELSE IF rsi < 40 THEN Bull(s, 5, "RSI approaching oversold")
    ELSE IF rsi > 70
      THEN Warn(Bear(s, 10, "RSI overbought"), "RSI overbought - potential reversal")
    ELSE IF rsi > 60
      THEN LET s1 == Bear(s, 5, "RSI approaching overbought")
           IN  IF s.bullish > s.bearish
                 THEN Warn(s1, "RSI getting high - watch for pullback")
                 ELSE s1
    ELSE s

\* 6. RSI ANALYSIS
Rule6RSI(s, rsi) ==
    IF 40 <= rsi /\ rsi <= 60 THEN Reason(s, "RSI neutral - room to move")
    ELSE IF rsi < 30 THEN Bull(s, 10, "RSI oversold")
    ELSE IF rsi < 40 THEN Bull(s, 5, "RSI approaching oversold")
    ELSE IF rsi > 70
      THEN Warn(Bear(s, 10, "RSI overbought"), "RSI overbought - potential reversal")
    ELSE IF rsi > 60
      THEN LET s1 == Bear(s, 5, "RSI approaching overbought")
           IN  IF s1.bullish > s1.bearish
                 THEN Warn(s1, "RSI getting high - watch for pullback")
                 ELSE s1
    ELSE s

\* variant: resistance proximity is scored before support proximity
Score_ResistanceFirst(trend, sr_flip, support_info, resistance_info, macd_data, volume_status, rsi) ==
    LET s1 == Rule1Trend(Scoring0, trend)
        s2 == Rule2Flip(s1, sr_flip)
        s3 == Rule3Support(Rule3Resistance(s2, resistance_info), support_info)
        s4 == Rule4MACD(s3, macd_data)
        s5 == Rule5Volume(s4, volume_status)
    IN  Rule6RSI(s5, rsi)

\* rules 1..6 in the order analyze applies them
Score(trend, sr_flip, support_info, resistance_info, macd_data, volume_status, rsi) ==
    LET s1 == Rule1Trend(Scoring0, trend)
        s2 == Rule2Flip(s1, sr_flip)
        s3 == Rule3Resistance(Rule3Support(s2, support_info), resistance_info)
        s4 == Rule4MACD(s3, macd_data)
        s5 == Rule5Volume(s4, volume_status)
    IN  Rule6RSI(s5, rsi)

(***************************************************************************)
(* signals.py: analyze, DETERMINE SIGNAL                                   *)
(***************************************************************************)
\* variant: the total score is not normalised to 0-100
RawConfidence_NoClamp(bullish_score, bearish_score) ==
    Max(bullish_score, bearish_score)

\* confidence = min(100, max(bullish_score, bearish_score))
RawConfidence(bullish_score, bearish_score) ==
    Min(100, Max(bullish_score, bearish_score))

\* variant: HOLD keeps the computed confidence
HoldResult_NoCap(confidence) == [signal |-> "HOLD", confidence |-> confidence]

\* else: signal = "HOLD"; confidence = min(39, confidence)
HoldResult(confidence) == [signal |-> "HOLD", confidence |-> Min(39, confidence)]

\* variant: BUY asks for the confidence of WEAK_BUY
DetermineSignal_BuyAt40(bullish_score, bearish_score) ==
    LET net_score == bullish_score - bearish_score
        confidence == RawConfidence(bullish_score, bearish_score)
        S(sig) == [signal |-> sig, confidence |-> confidence]
    IN  IF net_score >= 40 /\ confidence >= 80 THEN S("STRONG_BUY")
        ELSE IF net_score >= 20 /\ confidence >= 40 THEN S("BUY")
        ELSE IF net_score > 0 /\ confidence >= 40 THEN S("WEAK_BUY")
        ELSE IF net_score <= -40 /\ confidence >= 80 THEN S("STRONG_SELL")
        ELSE IF net_score <= -20 /\ confidence >= 60 THEN S("SELL")
        ELSE IF net_score < 0 /\ confidence >= 40 THEN S("WEAK_SELL")
        ELSE HoldResult(confidence)

\* the if/elif chain of DETERMINE SIGNAL
DetermineSignal(bullish_score, bearish_score) ==
    LET net_score == bullish_score - bearish_score
        confidence == RawConfidence(bullish_score, bearish_score)
        S(sig) == [signal |-> sig, confidence |-> confidence]
    IN  IF net_score >= 40 /\ confidence >= 80 THEN S("STRONG_BUY")
        ELSE IF net_score >= 20 /\ confidence >= 60 THEN S("BUY")
        ELSE IF net_score > 0 /\ confidence >= 40 THEN S("WEAK_BUY")
        ELSE IF net_score <= -40 /\ confidence >= 80 THEN S("STRONG_SELL")
        ELSE IF net_score <= -20 /\ confidence >= 60 THEN S("SELL")
        ELSE IF net_score < 0 /\ confidence >= 40 THEN S("WEAK_SELL")
        ELSE HoldResult(confidence)

\* variant: the penalty applies as soon as one side exceeds 20
MixedSignals_Either(bullish_score, bearish_score) ==
    bullish_score > 20 \/ bearish_score > 20

\* if bullish_score > 20 and bearish_score > 20
MixedSignals(bullish_score, bearish_score) ==
    bullish_score > 20 /\ bearish_score > 20

\* confidence = int(confidence * 0.8): truncation of a non-negative product
ReduceConfidence(confidence) == (confidence * 8) \div 10

MixedPenalty(s, confidence) ==
    IF MixedSignals(s.bullish, s.bearish)
      THEN [warnings |-> Append(s.warnings, "Mixed signals - reduced confidence"),
            confidence |-> ReduceConfidence(confidence)]
      ELSE [warnings |-> s.warnings, confidence |-> confidence]

(***************************************************************************)
(* signals.py: analyze                                                     *)
(***************************************************************************)
\* variant: one candle fewer is accepted
InsufficientHistory_199(n) == n < 199

\* if len(df) < 200
InsufficientHistory(n) == n < 200

\* the short-circuit result
\* variant: a level exactly at the current price counts as a support
IsSupportOf_OrEqual(sr, current_price) == sr.level <= current_price

\* supports = [sr for sr in sr_levels if sr["level"] < current_price]
IsSupportOf(sr, current_price) == sr.level < current_price

\* resistances = [sr for sr in sr_levels if sr["level"] > current_price]
IsResistanceOf(sr, current_price) == sr.level > current_price

\* Python's None for a nearest level: analyze passes on
\* nearest["level"] if nearest else None
NoLevel == [level |-> None]

\* max(supports, key=level): the first level of the list that none exceeds
FirstHighest(levels) ==
    levels[CHOOSE k \in 1..Len(levels) :
              /\ \A m \in 1..Len(levels) : levels[m].level <= levels[k].level
              /\ \A m \in 1..(k - 1) : levels[m].level < levels[k].level]

\* min(resistances, key=level): the first level of the list none is below
FirstLowest(levels) ==
    levels[CHOOSE k \in 1..Len(levels) :
              /\ \A m \in 1..Len(levels) : levels[m].level >= levels[k].level
              /\ \A m \in 1..(k - 1) : levels[m].level > levels[k].level]

\* support_resistance.py: get_nearest_sr
get_nearest_sr(current_price, sr_levels) ==
    LET supports == SelectSeq(sr_levels, LAMBDA sr : IsSupportOf(sr, current_price))
        resistances == SelectSeq(sr_levels, LAMBDA sr : IsResistanceOf(sr, current_price))
    IN  [nearest_support |->
             IF supports # <<>> THEN FirstHighest(supports)
             ELSE NoLevel,
         nearest_resistance |->
             IF resistances # <<>> THEN FirstLowest(resistances)
             ELSE NoLevel]

InsufficientData(timestamp) ==
    [signal |-> "HOLD",
     confidence |-> 0,
     error |-> "Insufficient data (need 200+ candles)",
     timestamp |-> timestamp]

analyze(i, timestamp) ==
    IF InsufficientHistory(i.n) THEN InsufficientData(timestamp)
    ELSE
    LET ema_data == calculate_ema_trend(i.price, i.ema20, i.ema50, i.ema200)
        nearest == get_nearest_sr(i.price, i.sr_levels)
        support_info ==
            calculate_sr_distance_atr(i.price, nearest.nearest_support.level, i.atr)
        resistance_info ==
            calculate_sr_distance_atr(i.price, nearest.nearest_resistance.level, i.atr)
        s == Score(ema_data.trend, i.sr_flip, support_info, resistance_info,
                   i.macd, i.volume_status, i.rsi)
        d == DetermineSignal(s.bullish, s.bearish)
        p == MixedPenalty(s, d.confidence)
    IN  [symbol |-> i.symbol,
         timeframe |-> i.timeframe,
         signal |-> d.signal,
         confidence |-> p.confidence,
         trend |-> ema_data.trend,
         volume_status |-> i.volume_status,
         price |-> i.price,
         ema20 |-> ema_data.ema20,
         ema50 |-> ema_data.ema50,
         ema200 |-> ema_data.ema200,
         rsi |-> i.rsi,
         macd |-> i.macd,
         atr |-> i.atr,
         support |-> support_info,
         resistance |-> resistance_info,
         sr_flip |-> i.sr_flip,
         scores |-> [bullish |-> s.bullish, bearish |-> s.bearish,
                     net |-> s.bullish - s.bearish],
         reasons |-> s.reasons,
         warnings |-> p.warnings,
         timestamp |-> timestamp]

(***************************************************************************)
(* support_resistance.py: find_pivot_points                                *)
(* df is a sequence of candles; the code's 0-based position i is df[i+1].  *)
(* A pivot is [index, price, type]; its timestamp repeats the index.       *)
(***************************************************************************)
\* variant: an equal neighbour does not disqualify a swing high
HighBlocks_Strict(neighbour, current) == neighbour > current

\* if highs[i - j] >= current_high: is_swing_high = False
HighBlocks(neighbour, current) == neighbour >= current

\* if lows[i - j] <= current_low: is_swing_low = False
LowBlocks(neighbour, current) == neighbour <= current

IsSwingHigh(df, i, left, right) ==
    /\ \A j \in 1..left : ~HighBlocks(df[i - j + 1].high, df[i + 1].high)
    /\ \A j \in 1..right : ~HighBlocks(df[i + j + 1].high, df[i + 1].high)

IsSwingLow(df, i, left, right) ==
    /\ \A j \in 1..left : ~LowBlocks(df[i - j + 1].low, df[i + 1].low)
    /\ \A j \in 1..right : ~LowBlocks(df[i + j + 1].low, df[i + 1].low)

Pivot(i, price, type) == [index |-> i, price |-> price, type |-> type]

\* one iteration of "for i in range(left, len(df) - right)"
PivotsAt(df, i, left, right) ==
    (IF IsSwingHigh(df, i, left, right)
       THEN <<Pivot(i, df[i + 1].high, "high")>> ELSE <<>>)
    \o
    (IF IsSwingLow(df, i, left, right)
       THEN <<Pivot(i, df[i + 1].low, "low")>> ELSE <<>>)

RECURSIVE PivotLoop(_, _, _, _)
PivotLoop(df, i, left, right) ==
    IF i >= Len(df) - right THEN <<>>
    ELSE PivotsAt(df, i, left, right) \o PivotLoop(df, i + 1, left, right)

find_pivot_points(df, left, right) ==
    IF Len(df) < left + right + 1 THEN <<>>
    ELSE PivotLoop(df, left, left, right)

(***************************************************************************)
(* support_resistance.py: find_sr_levels                                   *)
(* Prices are whole numbers of the eighth decimal place, so that           *)
(* round(avg_price, 8) rounds a quotient to the nearest whole number.      *)
(***************************************************************************)
PivotLeft == 5              \* find_pivot_points(df_lookback, left=5, right=5)
PivotRight == 5
ClusterThresholdNum == 5    \* cluster_threshold = 0.005
ClusterThresholdDen == 1000
min_touches == 2

\* df.tail(lookback)
tail(df, n) ==
    IF Len(df) <= n THEN df ELSE SubSeq(df, Len(df) - n + 1, Len(df))

\* price_diff = abs(pivot["price"] - other_pivot["price"]) / pivot["price"]
\* if price_diff <= cluster_threshold
WithinCluster(pivot, other_pivot) ==
    Abs(pivot.price - other_pivot.price) * ClusterThresholdDen
        <= ClusterThresholdNum * pivot.price

\* variant: a pivot that is already in a cluster can be absorbed again
Skip_Never(j, used) == FALSE

\* if j in used: continue
Skip(j, used) == j \in used

\* variant: a candidate is compared with the member absorbed last
Reference_LastMember(pivots, i, absorbed) ==
    IF absorbed = <<>> THEN pivots[i] ELSE pivots[absorbed[Len(absorbed)]]

\* every candidate of the inner loop is compared with the seed, pivots[i]
Reference(pivots, i, absorbed) == pivots[i]

\* the inner loop "for j, other_pivot in enumerate(pivots)" from position j
\* on: the positions the cluster seeded by pivots[i] absorbs, in order
RECURSIVE InnerLoop(_, _, _, _, _)
InnerLoop(pivots, i, j, used, absorbed) ==
    IF j > Len(pivots) THEN absorbed
    ELSE IF Skip(j, used) THEN InnerLoop(pivots, i, j + 1, used, absorbed)
    ELSE IF WithinCluster(Reference(pivots, i, absorbed), pivots[j])
           THEN InnerLoop(pivots, i, j + 1, used \cup {j}, Append(absorbed, j))
           ELSE InnerLoop(pivots, i, j + 1, used, absorbed)

\* the outer loop "for i, pivot in enumerate(pivots)" from position i on
RECURSIVE OuterLoop(_, _, _)
OuterLoop(pivots, i, used) ==
    IF i > Len(pivots) THEN <<>>
    ELSE IF i \in used THEN OuterLoop(pivots, i + 1, used)
    ELSE LET absorbed == InnerLoop(pivots, i, 1, used \cup {i}, <<>>)
             cluster == <<pivots[i]>>
                          \o [k \in 1..Len(absorbed) |-> pivots[absorbed[k]]]
         IN  <<cluster>> \o OuterLoop(pivots, i + 1,
                              used \cup {i}
                                   \cup { absorbed[k] : k \in 1..Len(absorbed) })

Clusters(pivots) == OuterLoop(pivots, 1, {})

RECURSIVE SumPrices(_)
SumPrices(cluster) ==
    IF cluster = <<>> THEN 0
    ELSE Head(cluster).price + SumPrices(Tail(cluster))

CountType(cluster, type) ==
    Cardinality({ k \in 1..Len(cluster) : cluster[k].type = type })

\* round(sum / n, 8): the nearest whole number, a half going to the even one
Round8(sum, n) ==
    LET q == sum \div n
        r == sum % n
    IN  IF 2 * r < n THEN q
        ELSE IF 2 * r > n THEN q + 1
        ELSE IF q % 2 = 0 THEN q ELSE q + 1

\* variant: a level exactly at the current price is a support
IsSupport_OrEqual(cluster, current_price) ==
    SumPrices(cluster) <= current_price * Len(cluster)

\* if avg_price < current_price
IsSupport(cluster, current_price) ==
    SumPrices(cluster) < current_price * Len(cluster)

\* variant: every cluster becomes a level
TooFewTouches_Never(cluster) == FALSE

\* if len(cluster) < min_touches: continue
TooFewTouches(cluster) == Len(cluster) < min_touches

MakeLevel(cluster, current_price) ==
    [level |-> Round8(SumPrices(cluster), Len(cluster)),
     strength |-> Len(cluster),
     type |-> IF IsSupport(cluster, current_price)
                THEN "support" ELSE "resistance",
     high_touches |-> CountType(cluster, "high"),
     low_touches |-> CountType(cluster, "low"),
     pivots |-> cluster]

RECURSIVE LevelsOf(_, _)
LevelsOf(clusters, current_price) ==
    IF clusters = <<>> THEN <<>>
    ELSE (IF TooFewTouches(Head(clusters)) THEN <<>>
          ELSE <<MakeLevel(Head(clusters), current_price)>>)
         \o LevelsOf(Tail(clusters), current_price)

\* sr_levels.sort(key=strength, reverse=True): stable, strongest first
RECURSIVE SortFrom(_, _)
SortFrom(sr_levels, strength) ==
    IF strength < 0 THEN <<>>
    ELSE SelectSeq(sr_levels, LAMBDA l : l.strength = strength)
         \o SortFrom(sr_levels, strength - 1)

SortByStrength(sr_levels, most) == SortFrom(sr_levels, most)

\* the locals pivots and clusters and the returned sr_levels
find_sr_levels(df, lookback) ==
    LET pivots == find_pivot_points(tail(df, lookback), PivotLeft, PivotRight)
    IN  IF pivots = <<>>
          THEN [pivots |-> <<>>, clusters |-> <<>>, sr_levels |-> <<>>]
          ELSE LET clusters == Clusters(pivots)
                   current_price == df[Len(df)].close
               IN  [pivots |-> pivots,
                    clusters |-> clusters,
                    sr_levels |-> SortByStrength(
                                      LevelsOf(clusters, current_price),
                                      Len(pivots))]

(***************************************************************************)
(* support_resistance.py: detect_sr_flip                                   *)
(* df is a sequence of candles [high, low, close]; sr_levels a sequence of *)
(* [level, strength, high_touches, low_touches] as find_sr_levels returns. *)
(***************************************************************************)
\* flip_threshold: float = 0.015, as a fraction FlipThresholdNum / FlipThresholdDen
FlipThresholdNum == 15
FlipThresholdDen == 1000
\* confirmation_candles: int = 3
confirmation_candles == 3
\* lookback_start = -confirmation_candles - 10
BreakoutLookback == 10

NotDetected ==
    [flip_detected |-> FALSE, flip_type |-> "None", level |-> None, confidence |-> 0]

\* df[col].iloc[from:] / .iloc[from:to] as index sets (1-based)
RecentIdx(df) ==
    { k \in 1..Len(df) : k > Len(df) - confirmation_candles }
PreviousIdx(df) ==
    { k \in 1..Len(df) : /\ k > Len(df) - confirmation_candles - BreakoutLookback
                         /\ k <= Len(df) - confirmation_candles }

SetMin(S) == CHOOSE x \in S : \A y \in S : x <= y
SetMax(S) == CHOOSE x \in S : \A y \in S : x >= y

RecentLow(df) == SetMin({ df[k].low : k \in RecentIdx(df) })
RecentHigh(df) == SetMax({ df[k].high : k \in RecentIdx(df) })
CurrentPrice(df) == df[Len(df)].close

\* price_distance = abs(current_price - level) / level; skipped when > flip_threshold
TooFar(current_price, level) ==
    Abs(current_price - level) * FlipThresholdDen > FlipThresholdNum * level

\* variant: the confidence is not capped at 100
FlipConfidence_NoCap(sr) == sr.strength * 20 + 40

\* confidence = min(100, sr["strength"] * 20 + 40)
FlipConfidence(sr) == Min(100, sr.strength * 20 + 40)

\* variant: the low must also stay within flip_threshold below the level
TestedFromAbove_TwoSided(recent_low, level) ==
    /\ recent_low * FlipThresholdDen <= level * (FlipThresholdDen + FlipThresholdNum)
    /\ recent_low * FlipThresholdDen >= level * (FlipThresholdDen - FlipThresholdNum)

\* tested_level = recent_low <= level * (1 + flip_threshold)
TestedFromAbove(recent_low, level) ==
    recent_low * FlipThresholdDen <= level * (FlipThresholdDen + FlipThresholdNum)

\* tested_level = recent_high >= level * (1 - flip_threshold)
TestedFromBelow(recent_high, level) ==
    recent_high * FlipThresholdDen >= level * (FlipThresholdDen - FlipThresholdNum)

BullishFlip(df, sr) ==
    /\ sr.high_touches >= 2
    /\ \E k \in PreviousIdx(df) : df[k].close < sr.level            \* was_below
    /\ CurrentPrice(df) > sr.level                                   \* now_above
    /\ TestedFromAbove(RecentLow(df), sr.level)                     \* tested_level
    /\ CurrentPrice(df) > RecentLow(df)                              \* bounced

BearishFlip(df, sr) ==
    /\ sr.low_touches >= 2
    /\ \E k \in PreviousIdx(df) : df[k].close > sr.level            \* was_above
    /\ CurrentPrice(df) < sr.level                                   \* now_below
    /\ TestedFromBelow(RecentHigh(df), sr.level)                    \* tested_level
    /\ CurrentPrice(df) < RecentHigh(df)                             \* rejected

\* variant: an equal confidence replaces the kept flip
KeepFlip_OrEqual(result, confidence) == confidence >= result.confidence

\* if confidence > result["confidence"]: result = {...}
KeepFlip(result, confidence) == confidence > result.confidence

\* one iteration of "for sr in sr_levels"
FlipStep(df, sr, result) ==
    IF TooFar(CurrentPrice(df), sr.level) THEN result
    ELSE
    LET conf == FlipConfidence(sr)
        r1 == IF BullishFlip(df, sr) /\ KeepFlip(result, conf)
                THEN [flip_detected |-> TRUE, flip_type |-> "bullish",
                      level |-> sr.level, confidence |-> conf]
                ELSE result
    IN  IF BearishFlip(df, sr) /\ KeepFlip(r1, conf)
          THEN [flip_detected |-> TRUE, flip_type |-> "bearish",
                level |-> sr.level, confidence |-> conf]
          ELSE r1

RECURSIVE FlipLoop(_, _, _, _)
FlipLoop(df, sr_levels, k, result) ==
    IF k > Len(sr_levels) THEN result
    ELSE FlipLoop(df, sr_levels, k + 1, FlipStep(df, sr_levels[k], result))

detect_sr_flip(df, sr_levels) ==
    IF Len(df) < confirmation_candles + BreakoutLookback \/ sr_levels = <<>>
      THEN NotDetected
      ELSE FlipLoop(df, sr_levels, 1, NotDetected)

(***************************************************************************)
(* binance_client.py: retry_on_error                                       *)
(* behaviour[k] is what the k-th invocation of the wrapped function does:  *)
(* [kind, id] with kind "ok" (it returns), "api" (BinanceAPIException),    *)
(* "request" (BinanceRequestException) or "other" (any other exception);   *)
(* id tells the exceptions and return values of the invocations apart.     *)
(* One call of the wrapper gives [events, result]: the invocations and     *)
(* sleeps in order, and what the caller gets.                              *)
(***************************************************************************)
RECURSIVE Pow2(_)
Pow2(n) == IF n = 0 THEN 1 ELSE 2 * Pow2(n - 1)

Call(k) == [what |-> "call", arg |-> k]
Sleep(t) == [what |-> "sleep", arg |-> t]

Return(o) == [how |-> "return", of |-> o]
Raise(e) == [how |-> "raise", of |-> e]
RuntimeError == [kind |-> "other", id |-> 0]
NoException == [kind |-> "none", id |-> 0]

\* variant: every exception is retried
IsBinanceException_Any(e) == e.kind # "ok"

\* isinstance(e, (BinanceAPIException, BinanceRequestException))
IsBinanceException(e) == e.kind \in {"api", "request"}

\* variant: the wrapper also sleeps after the last attempt
SleepsAfter_Always(attempt, max_retries) == TRUE

\* if attempt < max_retries - 1
SleepsAfter(attempt, max_retries) == attempt < max_retries - 1

\* for attempt in range(max_retries), from attempt on
RECURSIVE RetryLoop(_, _, _, _, _, _)
RetryLoop(max_retries, delay, behaviour, attempt, last_exception, events) ==
    IF attempt >= max_retries
      THEN [events |-> events,
            result |-> IF last_exception # NoException
                         THEN Raise(last_exception) ELSE Raise(RuntimeError)]
      ELSE LET o == behaviour[attempt + 1]
               called == Append(events, Call(attempt + 1))
           IN  IF o.kind = "ok" THEN [events |-> called, result |-> Return(o)]
               ELSE IF IsBinanceException(o)
                 THEN RetryLoop(max_retries, delay, behaviour, attempt + 1, o,
                                IF SleepsAfter(attempt, max_retries)
                                  THEN Append(called, Sleep(delay * Pow2(attempt)))
                                  ELSE called)
               ELSE [events |-> called, result |-> Raise(o)]

retry_on_error(max_retries, delay, behaviour) ==
    RetryLoop(max_retries, delay, behaviour, 0, NoException, <<>>)

(***************************************************************************)
(* Bounds and input sets                                                   *)
(***************************************************************************)
MaxCalls == 2       \* calls of analyze on the same candle series
MaxClock == 1       \* ticks of the wall clock
MaxLevels == 2      \* length of sr_levels
MaxWing == 2        \* find_pivot_points: left and right
MaxPivotLen == 5    \* find_pivot_points: candles in df
MaxEvents == 3      \* find_sr_levels: candles that stand out of a quiet series
MaxRetries == 3     \* retry_on_error, handle_rate_limit: max_retries
MaxSymbols == 3     \* analyze_multiple, run_analysis: length of the symbol list
MaxRuns == 2        \* run_continuous: runs started

\* <<close, ema20, ema50, ema200>> at the last candle: one per branch of
\* calculate_ema_trend, and one with EMA200 undefined
TrendCases ==
    { <<110, 105, 100, 95>>, <<110, 95, 100, 95>>, <<110, 105, 100, 102>>,
      <<90, 95, 100, 105>>, <<90, 105, 100, 105>>, <<90, 95, 100, 98>>,
      <<100, 105, 100, 95>>, <<110, 105, 100, None>> }

\* distance of the nearest support / resistance from the close, ATR
SRDists == {None, 5, 10, 11}
SRCases ==
    { c \in [support : SRDists, resistance : SRDists, atr : {0, 10}] :
        c.atr = 0 => c.support = c.resistance }

\* (status, crossover) pairs calculate_macd can return
MACDCases ==
    { m \in [status : {"bullish", "bearish", "neutral"},
             crossover : {"bullish", "bearish", "None"}] :
        /\ m.status = "bullish" => m.crossover # "bearish"
        /\ m.status = "bearish" => m.crossover # "bullish" }

VolumeCases == {"high", "normal", "low"}
RSIValues == {25, 30, 35, 40, 50, 60, 65, 70, 75}

FlipAt(type, level) ==
    [flip_detected |-> TRUE, flip_type |-> type, level |-> level, confidence |-> 80]
FlipCases(price) == {NotDetected, FlipAt("bullish", price), FlipAt("bearish", price)}

\* the list find_sr_levels returned: below the close a farther level and
\* then the nearest one, a level at the close, above the close the nearest
\* level and then a farther one
FartherBy == 20
LevelAt(price) == [level |-> price, strength |-> 2]
SRLevels(price, sr) ==
    (IF sr.support = None THEN <<>>
     ELSE <<LevelAt(price - sr.support - FartherBy), LevelAt(price - sr.support)>>)
    \o (IF sr.atr = 0 THEN <<>> ELSE <<LevelAt(price)>>)
    \o (IF sr.resistance = None THEN <<>>
        ELSE <<LevelAt(price + sr.resistance),
               LevelAt(price + sr.resistance + FartherBy)>>)

Input(n, t, f, sr, m, v, r) ==
    [n |-> n, symbol |-> "BTCUSDT", timeframe |-> "1h",
     price |-> t[1], ema20 |-> t[2], ema50 |-> t[3], ema200 |-> t[4],
     sr_flip |-> f,
     sr_levels |-> SRLevels(t[1], sr),
     atr |-> sr.atr, macd |-> m, volume_status |-> v, rsi |-> r]

BullishMACD == [status |-> "bullish", crossover |-> "bullish"]
RisingMACD == [status |-> "bullish", crossover |-> "None"]
FallingMACD == [status |-> "bearish", crossover |-> "None"]
SRCase(support, resistance, atr) ==
    [support |-> support, resistance |-> resistance, atr |-> atr]

\* the candle series get_candles can deliver: one of 200 candles for every
\* signal class, a second STRONG_BUY of lower confidence, and one of 199
\* candles
BatchSeries ==
    << Input(200, <<110, 105, 100, 95>>, FlipAt("bullish", 100),
            SRCase(10, None, 10), BullishMACD, "high", 25),
      Input(200, <<110, 95, 100, 95>>, FlipAt("bullish", 100),
            SRCase(5, 5, 10), BullishMACD, "high", 65),
      Input(200, <<90, 95, 100, 98>>, FlipAt("bullish", 100),
            SRCase(None, None, 0), BullishMACD, "high", 25),
      Input(200, <<90, 95, 100, 98>>, NotDetected,
            SRCase(5, None, 10), RisingMACD, "high", 40),
      Input(200, <<100, 105, 100, 95>>, NotDetected,
            SRCase(None, None, 0), RisingMACD, "low", 40),
      Input(200, <<90, 95, 100, 98>>, NotDetected,
            SRCase(None, None, 0), FallingMACD, "high", 65),
      Input(200, <<90, 95, 100, 98>>, NotDetected,
            SRCase(None, 5, 10), FallingMACD, "high", 65),
      Input(200, <<90, 95, 100, 105>>, FlipAt("bearish", 100),
            SRCase(None, 5, 10), FallingMACD, "high", 65),
      Input(199, <<110, 105, 100, 95>>, NotDetected,
            SRCase(5, 5, 10), BullishMACD, "high", 25) >>

\* series of 200 and more candles
ScoredInputs ==
    { Input(n, t, f, sr, m, v, r) :
        n \in {200}, t \in TrendCases, f \in FlipCases(100), sr \in SRCases,
        m \in MACDCases, v \in VolumeCases, r \in RSIValues }

\* series of fewer than 200 candles
ShortInputs ==
    { Input(n, t, f, sr, m, v, r) :
        n \in {0, 199}, t \in TrendCases, f \in FlipCases(100),
        sr \in {[support |-> 5, resistance |-> 5, atr |-> 10]},
        m \in {[status |-> "bullish", crossover |-> "bullish"]},
        v \in {"high"}, r \in {25, 75} }

\* the series that are analysed more than once: one of each trend and of
\* each RSI branch that scores
RepeatedTrendCases ==
    { <<110, 105, 100, 95>>, <<110, 95, 100, 95>>, <<90, 95, 100, 105>>,
      <<90, 105, 100, 105>>, <<100, 105, 100, 95>> }
RepeatedRSIValues == {25, 50, 65, 75}
RepeatedInputs ==
    { i \in ScoredInputs :
        /\ <<i.price, i.ema20, i.ema50, i.ema200>> \in RepeatedTrendCases
        /\ i.rsi \in RepeatedRSIValues }

(***************************************************************************)
(* signals.py: analyze_multiple                                            *)
(* outcomes[k] is what analyze does for symbols[k]: it raises, or it       *)
(* returns the result for the candle series it fetched, which is named by  *)
(* its place in BatchSeries.  The clock counts the half seconds slept.     *)
(***************************************************************************)
Raises(error) == [raises |-> TRUE, error |-> error]
Fetches(series) == [raises |-> FALSE, series |-> series]

\* result = await analyze(symbol, timeframe)
AnalysisOf(symbol, outcome, timestamp) ==
    analyze([BatchSeries[outcome.series] EXCEPT !.symbol = symbol], timestamp)

\* the dict appended by analyze_multiple's except branch
ErrorResult(symbol, error, timestamp) ==
    [symbol |-> symbol, signal |-> "ERROR", error |-> error,
     timestamp |-> timestamp]

\* variant: an exception ends the loop
NextSymbol_Abort(k, n) == n + 1

\* for symbol in symbols: the position taken after an except branch
NextSymbol(k, n) == k + 1

\* st is [analysed, results, now]
RECURSIVE AnalyzeEach(_, _, _, _)
AnalyzeEach(symbols, outcomes, k, st) ==
    IF k > Len(symbols) THEN st
    ELSE LET symbol == symbols[k]
             analysed == Append(st.analysed, symbol)
         IN  IF outcomes[k].raises
               THEN AnalyzeEach(symbols, outcomes, NextSymbol(k, Len(symbols)),
                        [analysed |-> analysed,
                         results |-> Append(st.results,
                             ErrorResult(symbol, outcomes[k].error, st.now)),
                         now |-> st.now + 1])
               ELSE AnalyzeEach(symbols, outcomes, k + 1,
                        [analysed |-> analysed,
                         results |-> Append(st.results,
                             AnalysisOf(symbol, outcomes[k], st.now)),
                         now |-> st.now + 1])

\* signal_order.get(x.get("signal", "ERROR"), 7)
signal_order(x) ==
    LET signal == IF "signal" \in DOMAIN x THEN x.signal ELSE "ERROR"
    IN  CASE signal = "STRONG_BUY" -> 0
          [] signal = "BUY" -> 1
          [] signal = "WEAK_BUY" -> 2
          [] signal = "HOLD" -> 3
          [] signal = "WEAK_SELL" -> 4
          [] signal = "SELL" -> 5
          [] signal = "STRONG_SELL" -> 6
          [] OTHER -> 7

\* variant: the confidence ascends within a class
ConfidenceKey_Ascending(x) == IF "confidence" \in DOMAIN x THEN x.confidence ELSE 0

\* -x.get("confidence", 0)
ConfidenceKey(x) == IF "confidence" \in DOMAIN x THEN 0 - x.confidence ELSE 0

\* the order of the key tuples (signal_order, -confidence)
KeyBefore(x, y) ==
    \/ signal_order(x) < signal_order(y)
    \/ /\ signal_order(x) = signal_order(y)
       /\ ConfidenceKey(x) < ConfidenceKey(y)

\* list.sort is stable: x goes behind every element whose key is not greater
InsertByKey(sorted, x) ==
    LET p == Cardinality({ k \in 1..Len(sorted) : ~KeyBefore(x, sorted[k]) })
    IN  SubSeq(sorted, 1, p) \o <<x>> \o SubSeq(sorted, p + 1, Len(sorted))

RECURSIVE SortBySignal(_, _)
SortBySignal(unsorted, n) ==
    IF n = 0 THEN <<>>
    ELSE InsertByKey(SortBySignal(unsorted, n - 1), unsorted[n])

analyze_multiple(symbols, outcomes) ==
    LET st == AnalyzeEach(symbols, outcomes, 1,
                          [analysed |-> <<>>, results |-> <<>>, now |-> 0])
    IN  [handler |-> "analyze_multiple",
         analysed |-> st.analysed,
         results |-> SortBySignal(st.results, Len(st.results))]

(***************************************************************************)
(* main.py: calculate_position_size, execute_trade                         *)
(* client is the Binance client: [present, free, create_order], where free *)
(* is the USDT balance get_available_balance returns and create_order[k]   *)
(* is what the exchange does with the k-th order request of a call.  What  *)
(* a call did is [returned, paper, orders, requests, alerts].              *)
(***************************************************************************)
\* POSITION_SIZE_HIGH / MEDIUM / LOW, in percent of the balance
PositionPercent(confidence) ==
    IF confidence >= 80 THEN 5 ELSE IF confidence >= 60 THEN 3 ELSE 1

\* calculate_position_size, in hundredths of the quote currency
calculate_position_size(confidence, balance) ==
    balance * PositionPercent(confidence)

\* the retries place_market_order is decorated with
PlaceOrderRetries == 3
PlaceOrderDelay == 1

\* binance_client.py: place_market_order under its decorator.  Every
\* invocation of the body sends one create_order request.
place_market_order(client) ==
    retry_on_error(PlaceOrderRetries, PlaceOrderDelay, client.create_order)

\* if signal in ["STRONG_BUY", "BUY"] ... elif ... else: return False
TradeSide(signal) ==
    IF signal \in {"STRONG_BUY", "BUY"} THEN "BUY"
    ELSE IF signal \in {"STRONG_SELL", "SELL"} THEN "SELL"
    ELSE "None"

NoTrade(returned) ==
    [returned |-> returned, paper |-> <<>>, orders |-> <<>>,
     requests |-> <<>>, alerts |-> <<>>]

Alerts(notifier, alert) == IF notifier THEN <<alert>> ELSE <<>>

\* variant: the paper-trading flag is not consulted
PaperBranch_Never(paper_trading) == FALSE

\* if PAPER_TRADING:
PaperBranch(paper_trading) == paper_trading

execute_trade(symbol, result, paper_trading, client, notifier) ==
    LET signal == IF "signal" \in DOMAIN result THEN result.signal ELSE "HOLD"
        confidence == IF "confidence" \in DOMAIN result THEN result.confidence ELSE 0
        price == IF "price" \in DOMAIN result THEN result.price ELSE 0
        side == TradeSide(signal)
        trade == [symbol |-> symbol, side |-> side]
    IN  IF side = "None" THEN NoTrade(FALSE)
        ELSE IF PaperBranch(paper_trading)
          THEN [NoTrade(TRUE) EXCEPT
                   !.paper = <<trade>>,
                   !.alerts = Alerts(notifier, "trade")]
        ELSE IF ~client.present THEN NoTrade(FALSE)
        ELSE LET position_value == calculate_position_size(confidence, client.free)
                 tradeable == price > 0 /\ position_value > 0
                 placed == place_market_order(client)
             IN  IF ~tradeable THEN NoTrade(FALSE)
                 ELSE [returned |-> placed.result.how = "return",
                       paper |-> <<>>,
                       orders |-> <<trade>>,
                       requests |-> SelectSeq(placed.events,
                                       LAMBDA ev : ev.what = "call"),
                       alerts |-> Alerts(notifier,
                                     IF placed.result.how = "return"
                                       THEN "trade" ELSE "error")]

(***************************************************************************)
(* main.py: run_analysis                                                   *)
(* st is [analysed, results, now, trades, alerts]; trades holds what each  *)
(* execute_trade call did.                                                 *)
(***************************************************************************)
\* the dict appended by run_analysis's except branch
FailedResult(symbol, error) ==
    [symbol |-> symbol, error |-> error, signal |-> "ERROR"]

\* variant: the flag is not consulted
AutoTrades_Always(auto_trade, signal) ==
    signal \in {"STRONG_BUY", "STRONG_SELL"}

\* if AUTO_TRADE and signal in ["STRONG_BUY", "STRONG_SELL"]
AutoTrades(auto_trade, signal) ==
    auto_trade /\ signal \in {"STRONG_BUY", "STRONG_SELL"}

RECURSIVE RunEach(_, _, _, _)
RunEach(b, notifier, k, st) ==
    IF k > Len(b.symbols) THEN st
    ELSE LET symbol == b.symbols[k]
             analysed == Append(st.analysed, symbol)
         IN  IF b.outcomes[k].raises
               THEN RunEach(b, notifier, NextSymbol(k, Len(b.symbols)),
                        [st EXCEPT
                           !.analysed = analysed,
                           !.results = Append(@,
                               FailedResult(symbol, b.outcomes[k].error)),
                           !.alerts = @ \o Alerts(notifier, "error")])
               ELSE LET result == AnalysisOf(symbol, b.outcomes[k], st.now)
                        trade ==
                            IF AutoTrades(b.AUTO_TRADE, result.signal)
                              THEN <<execute_trade(symbol, result,
                                        b.PAPER_TRADING, b.client, notifier)>>
                              ELSE <<>>
                    IN  RunEach(b, notifier, k + 1,
                            [analysed |-> analysed,
                             results |-> Append(st.results, result),
                             now |-> st.now + 2,
                             trades |-> st.trades \o trade,
                             alerts |-> st.alerts \o Alerts(notifier, "chart")
                                 \o (IF trade = <<>> THEN <<>>
                                     ELSE trade[1].alerts)])

run_analysis(b, notifier) ==
    LET st == RunEach(b, notifier, 1,
                  [analysed |-> <<>>, results |-> <<>>, now |-> 0,
                   trades |-> <<>>, alerts |-> <<>>])
    IN  [handler |-> "run_analysis",
         analysed |-> st.analysed,
         results |-> st.results,
         trades |-> st.trades,
         alerts |-> st.alerts]

(***************************************************************************)
(* signals.py: format_analysis_report                                      *)
(* The report is the sequence of its lines, each line the sequence of the  *)
(* values formatted into it.  result["k"] on a dict without key k raises   *)
(* KeyError.  Of volume_data and macd_data the result of the model carries *)
(* the status only; the ratio and the histogram printed with them are      *)
(* fields of the same dicts and are present whenever the status is.        *)
(***************************************************************************)
KeyError(key) == [raised |-> TRUE, error |-> "KeyError", key |-> key]
Report(lines) == [raised |-> FALSE, report |-> lines]

\* signal_emoji.get(result["signal"], "?")
signal_emoji(signal) ==
    CASE signal = "STRONG_BUY" -> "rocket"
      [] signal = "BUY" -> "green"
      [] signal = "WEAK_BUY" -> "yellow"
      [] signal = "HOLD" -> "pause"
      [] signal = "WEAK_SELL" -> "orange"
      [] signal = "SELL" -> "red"
      [] signal = "STRONG_SELL" -> "boom"
      [] OTHER -> "?"

\* trend_emoji.get(result["trend"], "?")
trend_emoji(trend) ==
    CASE trend = "strong_up" -> "up up"
      [] trend = "weak_up" -> "up"
      [] trend = "ranging" -> "right"
      [] trend = "weak_down" -> "down"
      [] trend = "strong_down" -> "down down"
      [] OTHER -> "?"

\* the keys of result in the order the report reads them first
ReportKeys ==
    <<"signal", "trend", "symbol", "confidence", "price", "volume_status",
      "ema20", "ema50", "ema200", "rsi", "macd", "atr", "support",
      "resistance", "sr_flip", "reasons", "warnings", "scores">>

MissingKeys(result) ==
    { k \in 1..Len(ReportKeys) : ReportKeys[k] \notin DOMAIN result }

\* "Support: ${level} ({distance_atr} ATR - {proximity})", for a level that
\* is not None
LevelLine(name, info) ==
    IF info.present
      THEN << <<name, info.level, info.distance, info.proximity>> >>
      ELSE <<>>

FlipLine(sr_flip) ==
    IF sr_flip.flip_detected
      THEN << <<IF sr_flip.flip_type = "bullish" THEN "flip green" ELSE "flip red",
                sr_flip.flip_type, sr_flip.level>> >>
      ELSE <<>>

WarningLines(warnings) ==
    IF warnings # <<>> THEN << <<"Warnings">> >> \o [k \in 1..Len(warnings) |-> <<warnings[k]>>]
    ELSE <<>>

FullReport(result) ==
    << <<signal_emoji(result.signal), result.symbol, result.signal, result.confidence>>,
       <<"Price", result.price>>,
       <<trend_emoji(result.trend), "Trend", result.trend>>,
       <<"Volume", result.volume_status>>,
       <<"EMA20", result.ema20>>,
       <<"EMA50", result.ema50>>,
       <<"EMA200", result.ema200>>,
       <<"RSI", result.rsi>>,
       <<"MACD", result.macd.status>>,
       <<"ATR", result.atr>> >>
    \o LevelLine("Support", result.support)
    \o LevelLine("Resistance", result.resistance)
    \o FlipLine(result.sr_flip)
    \o << <<"Reasons">> >>
    \o [k \in 1..Len(result.reasons) |-> <<result.reasons[k]>>]
    \o WarningLines(result.warnings)
    \o << <<"Scores", result.scores.bullish, result.scores.bearish, result.scores.net>> >>

\* return f"x {result['symbol']}: {result['error']}"
ErrorLine(result) ==
    IF "symbol" \in DOMAIN result
      THEN Report(<< <<"x", result.symbol, result.error>> >>)
      ELSE KeyError("symbol")

format_analysis_report(result) ==
    IF "error" \in DOMAIN result THEN ErrorLine(result)
    ELSE IF MissingKeys(result) # {}
      THEN KeyError(ReportKeys[SetMin(MissingKeys(result))])
    ELSE Report(FullReport(result))

(***************************************************************************)
(* Specification of analyze: the same candle series analysed MaxCalls      *)
(* times while the wall clock runs                                         *)
(***************************************************************************)
Init ==
    /\ inp \in RepeatedInputs \cup ShortInputs
    /\ results = <<>>
    /\ now = 0
    /\ TrendIdle /\ FlipIdle /\ PivotIdle /\ LevelIdle /\ RsiIdle /\ OrchestrationIdle

\* result = await analyze(symbol, timeframe)
Analyze ==
    /\ Len(results) < MaxCalls
    /\ results' = Append(results, analyze(inp, now))
    /\ UNCHANGED <<inp, now, trendVars, flipVars, pivotVars, levelVars, rsiVars, orchestrationVars>>

\* time passes between two reads of datetime.now(); the first read is time 0
Tick ==
    /\ results # <<>>
    /\ now < MaxClock
    /\ now' = now + 1
    /\ UNCHANGED <<inp, results, trendVars, flipVars, pivotVars, levelVars, rsiVars, orchestrationVars>>

Next == Analyze \/ Tick

Spec == Init /\ [][Next]_vars

(***************************************************************************)
(* Specification of analyze: one call on every series of 200 and more      *)
(* candles                                                                 *)
(***************************************************************************)
InitScore ==
    /\ inp \in ScoredInputs
    /\ results = <<>>
    /\ now = 0
    /\ TrendIdle /\ FlipIdle /\ PivotIdle /\ LevelIdle /\ RsiIdle /\ OrchestrationIdle

\* result = await analyze(symbol, timeframe)
AnalyzeOnce ==
    /\ results = <<>>
    /\ results' = <<analyze(inp, now)>>
    /\ UNCHANGED <<inp, now, trendVars, flipVars, pivotVars, levelVars, rsiVars, orchestrationVars>>

NextScore == AnalyzeOnce

SpecScore == InitScore /\ [][NextScore]_vars

(***************************************************************************)
(* Specification of calculate_ema_trend on bounded inputs                  *)
(***************************************************************************)
TrendValues == {90, 95, 100, 105, 110}

InitTrend ==
    /\ tin \in TrendValues \X TrendValues \X TrendValues \X (TrendValues \cup {None})
    /\ tout = NotCalled
    /\ AnalyzeIdle /\ FlipIdle /\ PivotIdle /\ LevelIdle /\ RsiIdle /\ OrchestrationIdle

CalcTrend ==
    /\ tout = NotCalled
    /\ tout' = calculate_ema_trend(tin[1], tin[2], tin[3], tin[4])
    /\ UNCHANGED <<tin, analyzeVars, flipVars, pivotVars, levelVars, rsiVars, orchestrationVars>>

NextTrend == CalcTrend

SpecTrend == InitTrend /\ [][NextTrend]_vars

(***************************************************************************)
(* Specification of detect_sr_flip on bounded inputs                       *)
(***************************************************************************)
\* a candle with low <= close <= high
Candle(close, spread) ==
    [high |-> close + spread, low |-> close - spread, close |-> close]

CurrentCloses == {995, 1005, 1015, 1030}
Spreads == {0, 40}
SeriesLens == {12, 13, 14}

\* n candles: the last three are k, k, cur; the ten before them close at a
\* (the first) and w (the others); any candle before those closes at o
MkSeries(n, o, a, w, k, cur) ==
    [ i \in 1..n |->
        IF i = n THEN cur
        ELSE IF i > n - confirmation_candles THEN k
        ELSE IF i = n - confirmation_candles - BreakoutLookback + 1 THEN Candle(a, 0)
        ELSE IF i > n - confirmation_candles - BreakoutLookback THEN Candle(w, 0)
        ELSE Candle(o, 0) ]

\* <<n, o, a, w>>: 13 candles with every mix of closes around the levels,
\* 14 candles with one more close in front of a uniform window, 12 candles
SeriesShapes ==
    { <<13, 990, 990, 990>>, <<13, 990, 990, 1005>>, <<13, 990, 990, 1020>>,
      <<13, 990, 1020, 1005>>, <<13, 990, 1020, 1020>>,
      <<14, 990, 1020, 1020>>, <<14, 1020, 990, 990>>,
      <<14, 990, 990, 990>>, <<14, 1020, 1020, 1020>>,
      <<12, 990, 990, 1020>> }

FlipSeries ==
    { MkSeries(sh[1], sh[2], sh[3], sh[4], Candle(kc, ks), Candle(cc, cs)) :
        sh \in SeriesShapes, kc \in {990, 1020}, ks \in Spreads,
        cc \in CurrentCloses, cs \in Spreads }

\* the levels find_sr_levels can return: strength = high_touches + low_touches
\* >= min_touches, the list in non-increasing order of strength;
\* <<high_touches, low_touches>> gives strengths 2, 3 and 4, that is the
\* confidences 80, 100 and 100 by the cap
LevelPrices == {1000, 1010}
TouchShapes == { <<2, 0>>, <<0, 2>>, <<1, 1>>, <<2, 1>>, <<1, 2>>, <<2, 2>> }
Levels ==
    { [level |-> l, strength |-> t[1] + t[2],
       high_touches |-> t[1], low_touches |-> t[2]] :
        l \in LevelPrices, t \in TouchShapes }

SortedByStrength(ls) ==
    \A i \in 1..Len(ls), j \in 1..Len(ls) : i < j => ls[i].strength >= ls[j].strength

LevelLists ==
    { ls \in UNION { [1..m -> Levels] : m \in 0..MaxLevels } : SortedByStrength(ls) }

InitFlip ==
    /\ fdf \in FlipSeries
    /\ flevels \in LevelLists
    /\ fout = NotCalled
    /\ AnalyzeIdle /\ TrendIdle /\ PivotIdle /\ LevelIdle /\ RsiIdle /\ OrchestrationIdle

DetectFlip ==
    /\ fout = NotCalled
    /\ fout' = detect_sr_flip(fdf, flevels)
    /\ UNCHANGED <<fdf, flevels, analyzeVars, trendVars, pivotVars, levelVars, rsiVars, orchestrationVars>>

NextFlip == DetectFlip

SpecFlip == InitFlip /\ [][NextFlip]_vars

(***************************************************************************)
(* Properties of analyze (specification Spec)                              *)
(***************************************************************************)
SignalClasses ==
    {"STRONG_BUY", "BUY", "WEAK_BUY", "HOLD", "WEAK_SELL", "SELL", "STRONG_SELL"}

MixedWarning == "Mixed signals - reduced confidence"

InSeq(x, seq) == \E k \in 1..Len(seq) : seq[k] = x

\* the results of the calls made so far on a series of 200 and more candles,
\* and on a shorter series
ScoredResults == IF inp.n >= 200 THEN { results[k] : k \in 1..Len(results) } ELSE {}
ShortResults == IF inp.n < 200 THEN { results[k] : k \in 1..Len(results) } ELSE {}

\* raw_confidence of a result, from the scores it reports
RawOf(r) ==
    LET m == IF r.scores.bullish >= r.scores.bearish
               THEN r.scores.bullish ELSE r.scores.bearish
    IN  IF m > 100 THEN 100 ELSE m

MixedOf(r) == r.scores.bullish > 20 /\ r.scores.bearish > 20

\* C1: on a series of at least 200 candles the result of analyze has an
\* integer confidence in [0,100] and one of the seven signal classes.
C1_ConfidenceAndSignalInRange ==
    \A r \in ScoredResults :
        /\ r.confidence \in 0..100
        /\ r.signal \in SignalClasses

\* a result whose dominant score exceeds 100 and is reported as confidence 100
C1_Witness ==
    \E r \in ScoredResults :
        /\ r.scores.bullish > 100
        /\ r.confidence = 100
        /\ r.signal = "STRONG_BUY"

\* the ordered table of the claim: the first row that matches
TableSignal(net, confidence) ==
    CASE net >= 40 /\ confidence >= 80 -> "STRONG_BUY"
      [] ~(net >= 40 /\ confidence >= 80)
         /\ net >= 20 /\ confidence >= 60 -> "BUY"
      [] ~(net >= 20 /\ confidence >= 60)
         /\ net > 0 /\ confidence >= 40 -> "WEAK_BUY"
      [] ~(net > 0 /\ confidence >= 40)
         /\ net <= -40 /\ confidence >= 80 -> "STRONG_SELL"
      [] ~(net > 0 /\ confidence >= 40) /\ ~(net <= -40 /\ confidence >= 80)
         /\ net <= -20 /\ confidence >= 60 -> "SELL"
      [] ~(net > 0 /\ confidence >= 40) /\ ~(net <= -20 /\ confidence >= 60)
         /\ net < 0 /\ confidence >= 40 -> "WEAK_SELL"
      [] OTHER -> "HOLD"

\* C2: the signal is the first match of the ordered table on
\* net = bullish - bearish and confidence = min(100, max(bullish, bearish));
\* bullish=40, bearish=0 gives WEAK_BUY and bullish=80, bearish=0 STRONG_BUY.
C2_SignalIsFirstMatch ==
    \A r \in ScoredResults :
        /\ r.scores.net = r.scores.bullish - r.scores.bearish
        /\ r.signal = TableSignal(r.scores.net, RawOf(r))
        /\ (r.scores.bullish = 40 /\ r.scores.bearish = 0) => r.signal = "WEAK_BUY"
        /\ (r.scores.bullish = 80 /\ r.scores.bearish = 0) => r.signal = "STRONG_BUY"

\* the boundary case bullish=40, bearish=0 has been analysed
C2_Witness ==
    \E r \in ScoredResults :
        /\ r.scores.bullish = 40
        /\ r.scores.bearish = 0
        /\ r.signal = "WEAK_BUY"

\* C3 as stated: with both scores above 20 the final confidence is
\* floor(0.8 x raw_confidence) and the mixed-signals warning is present;
\* otherwise the confidence is the raw confidence and there is no warning.
C3_PenaltyOnRawConfidence ==
    \A r \in ScoredResults :
        IF MixedOf(r)
          THEN /\ r.confidence = (RawOf(r) * 8) \div 10
               /\ InSeq(MixedWarning, r.warnings)
          ELSE /\ r.confidence = RawOf(r)
               /\ ~InSeq(MixedWarning, r.warnings)

\* the confidence after classification: HOLD caps the raw confidence at 39
ClassifiedConfidence(r) ==
    IF r.signal = "HOLD" /\ RawOf(r) > 39 THEN 39 ELSE RawOf(r)

\* C3 (amended): with both scores above 20 the final confidence is
\* floor(0.8 x c), c being the confidence after classification (the raw
\* confidence, or 39 when the signal is HOLD and the raw confidence exceeds
\* 39), and the mixed-signals warning is present; otherwise the confidence
\* is c and there is no such warning. The signal is the class of the table.
C3_PenaltyOnClassifiedConfidence ==
    \A r \in ScoredResults :
        /\ r.signal = TableSignal(r.scores.bullish - r.scores.bearish, RawOf(r))
        /\ IF MixedOf(r)
             THEN /\ r.confidence = (ClassifiedConfidence(r) * 8) \div 10
                  /\ InSeq(MixedWarning, r.warnings)
             ELSE /\ r.confidence = ClassifiedConfidence(r)
                  /\ r.confidence = RawOf(r)
                  /\ ~InSeq(MixedWarning, r.warnings)

\* a penalised HOLD whose raw confidence exceeds the cap
C3_Witness ==
    \E r \in ScoredResults :
        /\ MixedOf(r)
        /\ r.signal = "HOLD"
        /\ RawOf(r) > 39
        /\ r.confidence = 31

\* the band documented for each signal class
Band(signal) ==
    IF signal \in {"STRONG_BUY", "STRONG_SELL"} THEN 80..100
    ELSE IF signal \in {"BUY", "SELL"} THEN 60..79
    ELSE IF signal \in {"WEAK_BUY", "WEAK_SELL"} THEN 40..59
    ELSE 0..39

\* C4: the final confidence lies in the band documented for its signal
\* class (STRONG 80..100, BUY/SELL 60..79, WEAK 40..59, HOLD 0..39).
C4_ConfidenceInBand ==
    \A r \in ScoredResults : r.confidence \in Band(r.signal)

\* C5: whenever the signal is HOLD the returned confidence is at most 39.
C5_HoldAtMost39 ==
    \A r \in ScoredResults : r.signal = "HOLD" => r.confidence <= 39

\* HOLD from a tie of two high scores
C5_Witness ==
    \E r \in ScoredResults :
        /\ r.signal = "HOLD"
        /\ r.scores.net = 0
        /\ RawOf(r) > 39

\* C6: on fewer than 200 candles analyze returns HOLD with confidence 0 and
\* the insufficient-data marker, and nothing of the indicators, levels, flip
\* or scores.
C6_InsufficientData ==
    \A r \in ShortResults :
        /\ DOMAIN r = {"signal", "confidence", "error", "timestamp"}
        /\ r.signal = "HOLD"
        /\ r.confidence = 0
        /\ r.error = "Insufficient data (need 200+ candles)"

\* a series of 199 candles has been analysed
C6_Witness ==
    /\ inp.n = 199
    /\ Len(results) >= 1
    /\ results[1].signal = "HOLD"

\* C7: two calls of analyze on the identical candle series return results
\* that are identical in every field.
C7_TwoCallsIdentical ==
    Len(results) >= 2 => results[1] = results[2]

(***************************************************************************)
(* Properties of calculate_ema_trend (specification SpecTrend)             *)
(***************************************************************************)
\* the priority list of the claim on p, ema20, ema50 and e200, where e200
\* is ema200, or ema50 when ema200 is undefined: <<trend, score>>
TrendTable(p, ema20, ema50, e200) ==
    LET row1 == p > ema20 /\ ema20 > ema50 /\ ema50 > e200
        row2 == p > ema50 /\ ema20 < ema50
        row3 == p > ema50
        row4 == p < ema20 /\ ema20 < ema50 /\ ema50 < e200
        row5 == p < ema50 /\ ema20 > ema50
        row6 == p < ema50
    IN  CASE row1 -> <<"strong_up", 100>>
          [] ~row1 /\ row2 -> <<"weak_up", 60>>
          [] ~row1 /\ ~row2 /\ row3 -> <<"weak_up", 70>>
          [] ~row1 /\ ~row3 /\ row4 -> <<"strong_down", 0>>
          [] ~row1 /\ ~row3 /\ ~row4 /\ row5 -> <<"weak_down", 40>>
          [] ~row1 /\ ~row3 /\ ~row4 /\ ~row5 /\ row6 -> <<"weak_down", 30>>
          [] OTHER -> <<"ranging", 50>>

\* C8: calculate_ema_trend returns the first match of the priority list,
\* with ema200 replaced by ema50 when undefined; (110,105,100,95) gives
\* strong_up/100 and (90,95,100,105) gives strong_down/0.
C8_TrendIsFirstMatch ==
    tout # NotCalled =>
        LET e200 == IF tin[4] = None THEN tin[3] ELSE tin[4]
        IN  /\ <<tout.trend, tout.trend_score>> = TrendTable(tin[1], tin[2], tin[3], e200)
            /\ tout.ema200 = e200
            /\ tin = <<110, 105, 100, 95>>
                  => tout.trend = "strong_up" /\ tout.trend_score = 100
            /\ tin = <<90, 95, 100, 105>>
                  => tout.trend = "strong_down" /\ tout.trend_score = 0

\* the stack 110 > 105 > 100 with EMA200 undefined has been classified
C8_Witness ==
    /\ tout # NotCalled
    /\ tin = <<110, 105, 100, None>>
    /\ tout.trend = "weak_up"
    /\ tout.trend_score = 70

\* what rule 1 of analyze adds for the returned trend
Rule1Points == Rule1Trend(Scoring0, tout.trend)

FlipRan == fout # NotCalled /\ Len(fdf) >= confirmation_candles + BreakoutLookback

\* the levels of the list that qualify, by position, and their flip type
Qualifies(k) ==
    /\ ~TooFar(CurrentPrice(fdf), flevels[k].level)
    /\ BullishFlip(fdf, flevels[k]) \/ BearishFlip(fdf, flevels[k])
QualifyingIdx == { k \in 1..Len(flevels) : Qualifies(k) }
TypeOf(k) == IF BullishFlip(fdf, flevels[k]) THEN "bullish" ELSE "bearish"
ConfidenceOf(k) ==
    IF flevels[k].strength * 20 + 40 > 100 THEN 100 ELSE flevels[k].strength * 20 + 40
BestIdx ==
    { k \in QualifyingIdx : \A j \in QualifyingIdx : ConfidenceOf(k) >= ConfidenceOf(j) }

IsFlipOf(k) ==
    /\ fout.flip_detected
    /\ fout.flip_type = TypeOf(k)
    /\ fout.level = flevels[k].level
    /\ fout.confidence = ConfidenceOf(k)

Within(x, level) == Abs(x - level) * FlipThresholdDen <= FlipThresholdNum * level

ClaimBullish(sr) ==
    /\ Within(CurrentPrice(fdf), sr.level)
    /\ sr.high_touches >= 2
    /\ \E k \in PreviousIdx(fdf) : fdf[k].close < sr.level
    /\ CurrentPrice(fdf) > sr.level
    /\ Within(RecentLow(fdf), sr.level)
    /\ CurrentPrice(fdf) > RecentLow(fdf)

ClaimBearish(sr) ==
    /\ Within(CurrentPrice(fdf), sr.level)
    /\ sr.low_touches >= 2
    /\ \E k \in PreviousIdx(fdf) : fdf[k].close > sr.level
    /\ CurrentPrice(fdf) < sr.level
    /\ Within(RecentHigh(fdf), sr.level)
    /\ CurrentPrice(fdf) < RecentHigh(fdf)

\* C10: with a single level in the list and at least confirmation+10
\* candles, the result is a bullish (bearish) flip exactly when the level
\* satisfies the bullish (bearish) conditions, the retest being that the
\* recent low (high) is within flip_threshold of the level.
C10_FlipIffConditions ==
    (FlipRan /\ Len(flevels) = 1) =>
        /\ (fout.flip_detected /\ fout.flip_type = "bullish") <=> ClaimBullish(flevels[1])
        /\ (fout.flip_detected /\ fout.flip_type = "bearish") <=> ClaimBearish(flevels[1])

\* C11: detect_sr_flip returns the not-detected record when the series has
\* fewer than confirmation+10 candles, the level list is empty or no level
\* qualifies; otherwise a bullish or bearish flip at the price of a
\* qualifying level with confidence min(100, strength*20 + 40), in 1..100.
C11_NotDetectedOrFlip ==
    fout # NotCalled =>
        IF \/ Len(fdf) < confirmation_candles + BreakoutLookback
           \/ flevels = <<>>
           \/ QualifyingIdx = {}
          THEN /\ ~fout.flip_detected
               /\ fout.flip_type = "None"
               /\ fout.level = None
               /\ fout.confidence = 0
          ELSE /\ fout.flip_detected
               /\ fout.flip_type \in {"bullish", "bearish"}
               /\ fout.confidence \in 1..100
               /\ \E k \in QualifyingIdx : IsFlipOf(k)

\* a level of strength 4 qualifies: its confidence is capped at 100
C11_Witness ==
    /\ FlipRan
    /\ \E k \in QualifyingIdx : flevels[k].strength = 4 /\ IsFlipOf(k)
    /\ fout.confidence = 100

\* every candle of the series has low <= close <= high
WellFormed(df) == \A i \in 1..Len(df) : df[i].low <= df[i].close /\ df[i].close <= df[i].high

\* the conditions of one level with the retest tests left out
BullishWithoutRetest(sr) ==
    /\ sr.high_touches >= 2
    /\ \E k \in PreviousIdx(fdf) : fdf[k].close < sr.level
    /\ CurrentPrice(fdf) > sr.level
    /\ CurrentPrice(fdf) > RecentLow(fdf)

BearishWithoutRetest(sr) ==
    /\ sr.low_touches >= 2
    /\ \E k \in PreviousIdx(fdf) : fdf[k].close > sr.level
    /\ CurrentPrice(fdf) < sr.level
    /\ CurrentPrice(fdf) < RecentHigh(fdf)

PassesFilter(sr) == Within(CurrentPrice(fdf), sr.level)

\* the best confidence over the levels that pass the proximity filter and
\* meet the conditions other than the retest; 0 when there is none
BestWithoutRetest ==
    SetMax({0} \cup { ConfidenceOf(k) : k \in { j \in 1..Len(flevels) :
        /\ PassesFilter(flevels[j])
        /\ BullishWithoutRetest(flevels[j]) \/ BearishWithoutRetest(flevels[j]) } })

FarBelow(x, level) == x * FlipThresholdDen < level * (FlipThresholdDen - FlipThresholdNum)

\* C28: for candles with low <= close <= high, every level that passes the
\* proximity filter also passes both retest tests, so the retest never
\* rejects a level: the result of detect_sr_flip is the one obtained from
\* the remaining conditions alone, however far below the level the recent
\* low is.
C28_RetestNeverRejects ==
    (FlipRan /\ WellFormed(fdf)) =>
        LET recent_low == RecentLow(fdf)
            recent_high == RecentHigh(fdf)
            best == BestWithoutRetest
        IN  /\ \A k \in 1..Len(flevels) :
                  PassesFilter(flevels[k]) =>
                      /\ TestedFromAbove(recent_low, flevels[k].level)
                      /\ TestedFromBelow(recent_high, flevels[k].level)
            /\ fout.confidence = best
            /\ fout.flip_detected <=> best > 0

\* a bullish flip is reported at a level whose recent low lies more than
\* flip_threshold below it
C28_Witness ==
    /\ FlipRan /\ WellFormed(fdf)
    /\ fout.flip_detected /\ fout.flip_type = "bullish"
    /\ FarBelow(RecentLow(fdf), fout.level)

(***************************************************************************)
(* Specification of find_pivot_points on bounded inputs                    *)
(***************************************************************************)
\* candles with highs in 2..3 and lows in 1..2, so that neighbours tie
PivotCandles ==
    { [high |-> h, low |-> l, close |-> l] : h \in {2, 3}, l \in {1, 2} }

PivotSeries == UNION { [1..n -> PivotCandles] : n \in 0..MaxPivotLen }

InitPivot ==
    /\ pin \in [df : PivotSeries, left : 1..MaxWing, right : 1..MaxWing]
    /\ pout = NotCalled
    /\ AnalyzeIdle /\ TrendIdle /\ FlipIdle /\ LevelIdle /\ RsiIdle /\ OrchestrationIdle

FindPivots ==
    /\ pout = NotCalled
    /\ pout' = [called |-> TRUE,
                pivots |-> find_pivot_points(pin.df, pin.left, pin.right)]
    /\ UNCHANGED <<pin, analyzeVars, trendVars, flipVars, levelVars, rsiVars, orchestrationVars>>

NextPivot == FindPivots

SpecPivot == InitPivot /\ [][NextPivot]_vars

(***************************************************************************)
(* Properties of find_pivot_points (specification SpecPivot)               *)
(***************************************************************************)
\* candle i (0-based) is a swing high / low as the claim defines it
ClaimSwingHigh(i) ==
    /\ pin.left <= i
    /\ i < Len(pin.df) - pin.right
    /\ \A j \in 1..pin.left : pin.df[i + 1 - j].high < pin.df[i + 1].high
    /\ \A j \in 1..pin.right : pin.df[i + 1 + j].high < pin.df[i + 1].high

ClaimSwingLow(i) ==
    /\ pin.left <= i
    /\ i < Len(pin.df) - pin.right
    /\ \A j \in 1..pin.left : pin.df[i + 1 - j].low > pin.df[i + 1].low
    /\ \A j \in 1..pin.right : pin.df[i + 1 + j].low > pin.df[i + 1].low

Reported(i, type) ==
    \E k \in 1..Len(pout.pivots) :
        pout.pivots[k].index = i /\ pout.pivots[k].type = type

\* C12: candle i is reported as a swing high iff left <= i < len - right
\* and its high is strictly greater than the left preceding and the right
\* following highs; swing lows mirror this on lows; a series shorter than
\* left+right+1 has no pivots; pivots come in non-decreasing index order,
\* the high before the low at one index.
C12_PivotsAreStrictExtremes ==
    pout # NotCalled =>
        LET P == pout.pivots
            n == Len(pin.df)
        IN  /\ \A i \in 0..(n - 1) :
                  /\ Reported(i, "high") <=> ClaimSwingHigh(i)
                  /\ Reported(i, "low") <=> ClaimSwingLow(i)
            /\ \A k \in 1..Len(P) :
                  /\ P[k].index \in 0..(n - 1)
                  /\ P[k].type \in {"high", "low"}
                  /\ P[k].price = IF P[k].type = "high"
                                    THEN pin.df[P[k].index + 1].high
                                    ELSE pin.df[P[k].index + 1].low
            /\ n < pin.left + pin.right + 1 => P = <<>>
            /\ \A k \in 1..Len(P), m \in 1..Len(P) :
                  k < m => /\ P[k].index <= P[m].index
                           /\ P[k].index = P[m].index
                                 => P[k].type = "high" /\ P[m].type = "low"

\* one candle is both a swing high and a swing low, and another candle is
\* kept from being a swing high by an equal neighbour
C12_Witness ==
    /\ pout # NotCalled
    /\ \E k \in 1..Len(pout.pivots) :
          /\ k < Len(pout.pivots)
          /\ pout.pivots[k].index = pout.pivots[k + 1].index
    /\ \E i \in pin.left..(Len(pin.df) - pin.right - 1) :
          /\ ~Reported(i, "high")
          /\ \A j \in 1..pin.left : pin.df[i + 1 - j].high <= pin.df[i + 1].high
          /\ \A j \in 1..pin.right : pin.df[i + 1 + j].high <= pin.df[i + 1].high

(***************************************************************************)
(* Specification of find_sr_levels on bounded inputs                       *)
(* A series is quiet candles, all alike, with one candle that stands out   *)
(* after every PivotLeft quiet ones.                                       *)
(***************************************************************************)
QuietCandle == [high |-> 2000, low |-> 2000, close |-> 2000]

EventCandles ==
    { [high |-> e[1], low |-> e[2], close |-> 2000] :
        e \in { <<2000, 2000>>, <<2004, 2000>>, <<2012, 2000>>, <<2020, 2000>>,
                <<2000, 1996>>, <<2000, 1988>>, <<2004, 1996>>,
                <<2020, 1988>> } }

Quiet(candle) == [k \in 1..PivotLeft |-> candle]

RECURSIVE Spaced(_, _)
Spaced(candle, events) ==
    IF events = <<>> THEN Quiet(candle)
    ELSE Quiet(candle) \o <<Head(events)>> \o Spaced(candle, Tail(events))

\* three swing highs at 120 and three swing lows at 100, latest close 110
ExQuiet == [high |-> 115, low |-> 105, close |-> 110]
ExHigh == [high |-> 120, low |-> 105, close |-> 110]
ExLow == [high |-> 115, low |-> 100, close |-> 110]
ExampleSeries ==
    { Spaced(ExQuiet, <<ExHigh, ExLow, ExHigh, ExLow, ExHigh, ExLow>>),
      Spaced(ExQuiet, <<ExLow, ExLow, ExLow, ExHigh, ExHigh, ExHigh>>) }

LevelSeries ==
    {<<>>} \cup ExampleSeries
    \cup { Spaced(QuietCandle, ev) :
             ev \in UNION { [1..k -> EventCandles] : k \in 0..MaxEvents } }

Lookbacks == {17, 100}

InitLevels ==
    /\ lin \in [df : LevelSeries, lookback : Lookbacks]
    /\ lpivots = <<>> /\ lclusters = <<>> /\ lout = NotCalled
    /\ AnalyzeIdle /\ TrendIdle /\ FlipIdle /\ PivotIdle /\ RsiIdle /\ OrchestrationIdle

FindLevels ==
    /\ lout = NotCalled
    /\ LET r == find_sr_levels(lin.df, lin.lookback)
       IN  /\ lpivots' = r.pivots
           /\ lclusters' = r.clusters
           /\ lout' = [called |-> TRUE, sr_levels |-> r.sr_levels]
    /\ UNCHANGED <<lin, analyzeVars, trendVars, flipVars, pivotVars, rsiVars, orchestrationVars>>

NextLevels == FindLevels

SpecLevels == InitLevels /\ [][NextLevels]_vars

(***************************************************************************)
(* Properties of find_sr_levels (specification SpecLevels)                 *)
(***************************************************************************)
LevelsRan == lout # NotCalled

Members(c) == { c[m] : m \in 1..Len(c) }

\* the pivots of the clusters before the k-th
Earlier(k) == UNION { Members(lclusters[c]) : c \in 1..(k - 1) }

Position(p) == CHOOSE i \in 1..Len(lpivots) : lpivots[i] = p

\* |seed.price - p.price| / seed.price <= cluster_threshold
ClaimWithin(seed, p) ==
    Abs(seed.price - p.price) * 1000 <= 5 * seed.price

LatestClose == lin.df[Len(lin.df)].close

\* C13: the pivots of the last lookback candles are visited in
\* chronological order; the first pivot not yet in a cluster seeds the next
\* cluster, which absorbs exactly the other pivots not yet in a cluster
\* that are within cluster_threshold of the seed, relative to the seed's
\* price. Every pivot is in exactly one cluster and every member is within
\* cluster_threshold of its cluster's seed.
C13_SeedAbsorbsUnclustered ==
    LevelsRan =>
        /\ lpivots = find_pivot_points(tail(lin.df, lin.lookback), 5, 5)
        /\ \A i \in 1..Len(lpivots), j \in 1..Len(lpivots) :
              i < j => /\ lpivots[i].index <= lpivots[j].index
                       /\ lpivots[i] # lpivots[j]
        /\ \A k \in 1..Len(lclusters) :
              LET c == lclusters[k]
                  seed == c[1]
                  free == Members(lpivots) \ Earlier(k)
              IN  /\ seed \in free
                  /\ \A p \in free : Position(seed) <= Position(p)
                  /\ Members(c) \ {seed}
                        = { p \in free \ {seed} : ClaimWithin(seed, p) }
                  /\ Cardinality(Members(c)) = Len(c)
                  /\ \A m \in 1..Len(c) : ClaimWithin(seed, c[m])
                  /\ \A m \in 2..(Len(c) - 1) :
                        Position(c[m]) < Position(c[m + 1])
        /\ \A p \in Members(lpivots) :
              Cardinality({ k \in 1..Len(lclusters) :
                              p \in Members(lclusters[k]) }) = 1

\* the first cluster took a pivot from behind one it left to a later seed
C13_Witness ==
    /\ LevelsRan
    /\ Len(lpivots) = 3
    /\ lclusters = << <<lpivots[1], lpivots[3]>>, <<lpivots[2]>> >>

\* C14: the clustering is not transitively closed and depends on the order
\* of the pivots. Of three pivots x, y, z in visiting order: when y and z
\* are within cluster_threshold of x but not of each other, one cluster
\* holds all three; when x and z are each within cluster_threshold of y but
\* not of each other, y visited first gives that one cluster, while x
\* visited first gives the clusters {x, y} and {z}.
C14_NotTransitiveSeedOrder ==
    (LevelsRan /\ Len(lpivots) = 3) =>
        LET x == lpivots[1]
            y == lpivots[2]
            z == lpivots[3]
        IN  /\ (ClaimWithin(x, y) /\ ClaimWithin(x, z) /\ ~ClaimWithin(y, z)
                    /\ ~ClaimWithin(z, y))
                  => lclusters = << <<x, y, z>> >>
            /\ (ClaimWithin(x, y) /\ ~ClaimWithin(x, z) /\ ClaimWithin(y, z))
                  => lclusters = << <<x, y>>, <<z>> >>
            /\ (~ClaimWithin(x, y) /\ ClaimWithin(x, z) /\ ClaimWithin(z, y))
                  => lclusters = << <<x, z>>, <<y>> >>

\* one cluster holds two pivots that are farther apart than the threshold
C14_Witness ==
    /\ LevelsRan
    /\ Len(lpivots) = 3
    /\ Len(lclusters) = 1
    /\ ~ClaimWithin(lpivots[2], lpivots[3])
    /\ ~ClaimWithin(lpivots[3], lpivots[2])

\* what C15 says apart from the value of level
LevelsFromClusters ==
    LET L == lout.sr_levels
    IN  /\ \A k \in 1..Len(L) :
              /\ L[k].strength = Len(L[k].pivots)
              /\ L[k].strength = L[k].high_touches + L[k].low_touches
              /\ L[k].high_touches = CountType(L[k].pivots, "high")
              /\ L[k].low_touches = CountType(L[k].pivots, "low")
              /\ L[k].strength >= 2
              /\ L[k].pivots \in Members(lclusters)
        /\ { L[k].pivots : k \in 1..Len(L) }
              = { c \in Members(lclusters) : Len(c) >= 2 }
        /\ Len(L) = Cardinality({ c \in Members(lclusters) : Len(c) >= 2 })
        /\ \A i \in 1..Len(L), j \in 1..Len(L) :
              i < j => L[i].strength >= L[j].strength

\* C15 as stated: every level has strength equal to the number of its
\* pivots and to high_touches + low_touches, at least min_touches, and level
\* equal to the mean price of its pivots; smaller clusters give no level;
\* the list is in non-increasing order of strength.
C15_LevelIsMean ==
    LevelsRan =>
        /\ LevelsFromClusters
        /\ \A k \in 1..Len(lout.sr_levels) :
              LET l == lout.sr_levels[k]
              IN  l.level * l.strength = SumPrices(l.pivots)

\* C15 amended: as above, but level is the mean price rounded to eight
\* decimal places, so it is within half of the eighth decimal place of the
\* mean.
C15_LevelIsRoundedMean ==
    LevelsRan =>
        /\ LevelsFromClusters
        /\ \A k \in 1..Len(lout.sr_levels) :
              LET l == lout.sr_levels[k]
              IN  2 * Abs(l.level * l.strength - SumPrices(l.pivots))
                      <= l.strength

\* a level whose mean is not a whole number of the eighth decimal place, a
\* cluster that gives no level, and a stronger cluster found after a weaker
C15_Witness ==
    /\ LevelsRan
    /\ \E k \in 1..Len(lout.sr_levels) :
          SumPrices(lout.sr_levels[k].pivots) % lout.sr_levels[k].strength # 0
    /\ \E k \in 1..Len(lclusters) : Len(lclusters[k]) < 2
    /\ \E k \in 1..Len(lclusters), m \in 1..Len(lclusters) :
          k < m /\ 2 <= Len(lclusters[k]) /\ Len(lclusters[k]) < Len(lclusters[m])

\* C16: a level is a support iff the mean price of its pivots is strictly
\* below the latest close of the series, and a resistance otherwise; two
\* clusters of exactly 3 pivots at 100 and at 120 with latest close 110 give
\* exactly two levels of strength 3, a support at 100 and a resistance at
\* 120.
C16_SupportIffMeanBelowClose ==
    LevelsRan =>
        LET L == lout.sr_levels
        IN  /\ \A k \in 1..Len(L) :
                  /\ L[k].type \in {"support", "resistance"}
                  /\ L[k].type = "support"
                        <=> SumPrices(L[k].pivots)
                                < LatestClose * Len(L[k].pivots)
            /\ ( /\ Len(lclusters) = 2
                 /\ \A k \in 1..2 : Len(lclusters[k]) = 3
                 /\ \E k \in 1..2 :
                       /\ \A m \in 1..3 : lclusters[k][m].price = 100
                       /\ \A m \in 1..3 : lclusters[3 - k][m].price = 120
                 /\ LatestClose = 110 )
                  => /\ Len(L) = 2
                     /\ \A k \in 1..2 : L[k].strength = 3
                     /\ { <<L[k].level, L[k].type>> : k \in 1..2 }
                           = { <<100, "support">>, <<120, "resistance">> }

\* the two clusters of three pivots at 100 and 120 around a close of 110
C16_Witness ==
    /\ LevelsRan
    /\ lin.df \in ExampleSeries
    /\ Len(lclusters) = 2
    /\ Len(lclusters[1]) = 3 /\ Len(lclusters[2]) = 3
    /\ Len(lout.sr_levels) = 2

(***************************************************************************)
(* Properties of the scoring rules of analyze (specification SpecScore)    *)
(***************************************************************************)
\* the result of the latest call on a series of 200 and more candles; every
\* result is the latest one in the state its call leads to
LatestScored ==
    IF inp.n >= 200 /\ results # <<>> THEN {results[Len(results)]} ELSE {}

\* the points of rules 1, 2, 4 and 6, read off the fields of a result
TrendBull(r) ==
    IF r.trend = "strong_up" THEN 30 ELSE IF r.trend = "weak_up" THEN 15 ELSE 0
TrendBear(r) ==
    IF r.trend = "strong_down" THEN 30 ELSE IF r.trend = "weak_down" THEN 15 ELSE 0
FlipBull(r) ==
    IF r.sr_flip.flip_detected /\ r.sr_flip.flip_type = "bullish" THEN 25 ELSE 0
FlipBear(r) ==
    IF r.sr_flip.flip_detected /\ r.sr_flip.flip_type # "bullish" THEN 25 ELSE 0
MacdBull(r) ==
    IF r.macd.status = "bullish"
      THEN (IF r.macd.crossover = "bullish" THEN 15 ELSE 10) ELSE 0
MacdBear(r) ==
    IF r.macd.status = "bearish"
      THEN (IF r.macd.crossover = "bearish" THEN 15 ELSE 10) ELSE 0
RsiBull(r) == IF r.rsi < 30 THEN 10 ELSE IF r.rsi < 40 THEN 5 ELSE 0
RsiBear(r) == IF r.rsi > 70 THEN 10 ELSE IF r.rsi > 60 THEN 5 ELSE 0
LeaderBonus(r, mine, other) ==
    IF r.volume_status = "high" /\ mine > other THEN 10 ELSE 0

\* the levels of the list strictly below and strictly above the close
LevelsBelow ==
    { inp.sr_levels[k].level : k \in { m \in 1..Len(inp.sr_levels) :
                                         inp.sr_levels[m].level < inp.price } }
LevelsAbove ==
    { inp.sr_levels[k].level : k \in { m \in 1..Len(inp.sr_levels) :
                                         inp.sr_levels[m].level > inp.price } }

\* +20 at a distance of at most 0.5 ATR, +12 above 0.5 and at most 1.0 ATR
ClaimPoints(distance) ==
    IF 2 * distance <= inp.atr THEN 20
    ELSE IF distance <= inp.atr THEN 12
    ELSE 0

NoSupport == LevelsBelow = {} \/ inp.atr = 0
NoResistance == LevelsAbove = {} \/ inp.atr = 0
ClaimSupportPoints ==
    IF NoSupport THEN 0 ELSE ClaimPoints(inp.price - SetMax(LevelsBelow))
ClaimResistancePoints ==
    IF NoResistance THEN 0 ELSE ClaimPoints(SetMin(LevelsAbove) - inp.price)

\* C17: rule 3 gives bullish_score +20 when the nearest support, the
\* highest level strictly below the close, is at most 0.5 ATR away, +12
\* when it is more than 0.5 and at most 1.0 ATR away, and nothing
\* otherwise; the nearest resistance, the lowest level strictly above the
\* close, does the same for bearish_score. Without such a level, or with
\* ATR 0, the proximity info is none, no points are added and analyze
\* still returns a structured result.
C17_ProximityPoints ==
    \A r \in LatestScored :
        LET sp == ClaimSupportPoints
            rp == ClaimResistancePoints
            b4 == TrendBull(r) + FlipBull(r) + sp + MacdBull(r)
            s4 == TrendBear(r) + FlipBear(r) + rp + MacdBear(r)
        IN  /\ IF NoSupport THEN r.support = [present |-> FALSE]
               ELSE /\ r.support.present
                    /\ r.support.level = SetMax(LevelsBelow)
                    /\ r.support.distance = inp.price - r.support.level
            /\ IF NoResistance THEN r.resistance = [present |-> FALSE]
               ELSE /\ r.resistance.present
                    /\ r.resistance.level = SetMin(LevelsAbove)
                    /\ r.resistance.distance = r.resistance.level - inp.price
            /\ r.scores.bullish = b4 + LeaderBonus(r, b4, s4) + RsiBull(r)
            /\ r.scores.bearish = s4 + LeaderBonus(r, s4, b4) + RsiBear(r)
            /\ InSeq("Near support", r.reasons) <=> sp > 0
            /\ InSeq("Near resistance", r.reasons) <=> rp > 0
            /\ "error" \notin DOMAIN r
            /\ r.signal \in SignalClasses
            /\ r.confidence \in 0..100

\* a support at exactly 0.5 ATR and a resistance at exactly 1.0 ATR, both
\* with a farther level behind them and a level at the close
C17_Witness ==
    \E r \in LatestScored :
        /\ inp.atr > 0
        /\ r.support.present /\ 2 * r.support.distance = inp.atr
        /\ r.resistance.present /\ r.resistance.distance = inp.atr
        /\ Cardinality(LevelsBelow) = 2 /\ Cardinality(LevelsAbove) = 2
        /\ Len(inp.sr_levels) = 5

\* the points of rule 3, read off the proximity info of a result
InfoPoints(info) ==
    IF ~info.present THEN 0
    ELSE IF info.proximity = "very_close" THEN 20
    ELSE IF info.proximity = "close" THEN 12
    ELSE 0

\* the scores as rules 1-4 leave them
Bull4(r) == TrendBull(r) + FlipBull(r) + InfoPoints(r.support) + MacdBull(r)
Bear4(r) == TrendBear(r) + FlipBear(r) + InfoPoints(r.resistance) + MacdBear(r)

\* C18: with volume status high, rule 5 adds exactly 10 to the score that
\* is strictly greater after rules 1-4 and nothing on a tie; with status
\* low or normal it changes neither score, and low appends the
\* low-conviction warning.
C18_VolumeToLeader ==
    \A r \in LatestScored :
        LET b4 == Bull4(r)
            s4 == Bear4(r)
            b5 == r.scores.bullish - RsiBull(r)
            s5 == r.scores.bearish - RsiBear(r)
        IN  /\ IF r.volume_status = "high"
                 THEN IF b4 > s4 THEN b5 = b4 + 10 /\ s5 = s4
                      ELSE IF s4 > b4 THEN b5 = b4 /\ s5 = s4 + 10
                      ELSE b5 = b4 /\ s5 = s4
                 ELSE b5 = b4 /\ s5 = s4
            /\ InSeq("Low volume - weak conviction", r.warnings)
                  <=> r.volume_status = "low"

\* high volume on a tie of two non-zero scores
C18_Witness ==
    \E r \in LatestScored :
        /\ r.volume_status = "high"
        /\ Bull4(r) = Bear4(r)
        /\ Bull4(r) > 0
        /\ r.scores.bullish = Bull4(r) + RsiBull(r)

\* the rule a reason comes from: 1 trend, 2 flip, 3 support, 4 resistance,
\* 5 MACD, 6 MACD crossover, 7 volume, 8 RSI
ReasonRank(reason) ==
    IF reason \in {"Strong uptrend (EMA stack aligned)", "Weak uptrend",
                   "Strong downtrend (EMA stack aligned)", "Weak downtrend",
                   "Ranging/Sideways market"} THEN 1
    ELSE IF reason \in {"Bullish S/R flip", "Bearish S/R flip"} THEN 2
    ELSE IF reason = "Near support" THEN 3
    ELSE IF reason = "Near resistance" THEN 4
    ELSE IF reason \in {"MACD bullish", "MACD bearish"} THEN 5
    ELSE IF reason \in {"MACD bullish crossover!", "MACD bearish crossover!"} THEN 6
    ELSE IF reason = "High volume" THEN 7
    ELSE IF reason \in {"RSI neutral - room to move", "RSI oversold",
                        "RSI approaching oversold", "RSI overbought",
                        "RSI approaching overbought"} THEN 8
    ELSE 0

\* 1 low volume, 2 RSI, 3 mixed signals
WarningRank(warning) ==
    IF warning = "Low volume - weak conviction" THEN 1
    ELSE IF warning \in {"RSI overbought - potential reversal",
                         "RSI getting high - watch for pullback"} THEN 2
    ELSE IF warning = MixedWarning THEN 3
    ELSE 0

ReasonRanks(r) == [k \in 1..Len(r.reasons) |-> ReasonRank(r.reasons[k])]
WarningRanks(r) == [k \in 1..Len(r.warnings) |-> WarningRank(r.warnings[k])]

\* C20: the reasons are in rule order: exactly one trend reason first,
\* then, each only if its rule fired, the flip reason, the support reason,
\* the resistance reason, the MACD reason immediately followed by its
\* crossover reason, the high-volume reason and the RSI reason; the
\* warnings are in the order low volume, RSI, mixed signals, so the
\* mixed-signals warning is last when present.
C20_ReasonsInRuleOrder ==
    \A r \in LatestScored :
        LET rr == ReasonRanks(r)
            wr == WarningRanks(r)
            fired == { rr[k] : k \in 1..Len(rr) }
        IN  /\ rr # <<>>
            /\ rr[1] = 1
            /\ \A k \in 1..(Len(rr) - 1) : rr[k] > 0 /\ rr[k] < rr[k + 1]
            /\ 2 \in fired <=> r.sr_flip.flip_detected
            /\ 3 \in fired <=> InfoPoints(r.support) > 0
            /\ 4 \in fired <=> InfoPoints(r.resistance) > 0
            /\ 5 \in fired <=> r.macd.status \in {"bullish", "bearish"}
            /\ 6 \in fired <=> /\ r.macd.status \in {"bullish", "bearish"}
                               /\ r.macd.crossover = r.macd.status
            /\ \A k \in 1..Len(rr) : rr[k] = 6 => k > 1 /\ rr[k - 1] = 5
            /\ 7 \in fired <=> r.volume_status = "high"
            /\ 8 \in fired
            /\ \A k \in 1..Len(wr) : wr[k] > 0
            /\ \A k \in 1..(Len(wr) - 1) : wr[k] < wr[k + 1]
            /\ 3 \in { wr[k] : k \in 1..Len(wr) } => wr[Len(wr)] = 3

\* seven reasons (all but high volume) and all three warnings
C20_Witness ==
    \E r \in LatestScored :
        /\ Len(r.reasons) = 7
        /\ Len(r.warnings) = 3

(***************************************************************************)
(* Specification of rule 6 of analyze on every RSI value and on the        *)
(* scores rules 1-5 can leave                                              *)
(***************************************************************************)
ScoresBefore == {0, 10, 15, 20, 25, 30}

InitRule6 ==
    /\ rin \in [bullish : ScoresBefore, bearish : ScoresBefore, rsi : 0..100]
    /\ rout = NotCalled
    /\ AnalyzeIdle /\ TrendIdle /\ FlipIdle /\ PivotIdle /\ LevelIdle /\ OrchestrationIdle

ApplyRule6 ==
    /\ rout = NotCalled
    /\ rout' = Rule6RSI([bullish |-> rin.bullish, bearish |-> rin.bearish,
                         reasons |-> <<>>, warnings |-> <<>>], rin.rsi)
    /\ UNCHANGED <<rin, analyzeVars, trendVars, flipVars, pivotVars, levelVars, orchestrationVars>>

NextRule6 == ApplyRule6

SpecRule6 == InitRule6 /\ [][NextRule6]_vars

\* C19: rule 6 on an RSI value in [0,100]: 40 <= rsi <= 60 changes no
\* score; rsi < 30 adds 10 to bullish_score; 30 <= rsi < 40 adds 5 to it;
\* rsi > 70 adds 10 to bearish_score and the overbought warning;
\* 60 < rsi <= 70 adds 5 to bearish_score and appends the pullback warning
\* iff bullish_score exceeds bearish_score once the 5 are added. The rule
\* never changes both scores and appends no other warning.
C19_RsiRule ==
    rout # NotCalled =>
        LET rsi == rin.rsi
            db == rout.bullish - rin.bullish
            ds == rout.bearish - rin.bearish
        IN  /\ (40 <= rsi /\ rsi <= 60) =>
                  db = 0 /\ ds = 0 /\ rout.warnings = <<>>
            /\ rsi < 30 => db = 10 /\ ds = 0 /\ rout.warnings = <<>>
            /\ (30 <= rsi /\ rsi < 40) =>
                  db = 5 /\ ds = 0 /\ rout.warnings = <<>>
            /\ rsi > 70 =>
                  /\ db = 0 /\ ds = 10
                  /\ rout.warnings = <<"RSI overbought - potential reversal">>
            /\ (60 < rsi /\ rsi <= 70) =>
                  /\ db = 0 /\ ds = 5
                  /\ rout.warnings =
                        IF rout.bullish > rout.bearish
                          THEN <<"RSI getting high - watch for pullback">>
                          ELSE <<>>
            /\ db = 0 \/ ds = 0
            /\ Len(rout.reasons) = 1

\* bullish_score led by exactly 5 before the rule, so that the 5 points
\* for an RSI of 70 level the scores and no warning is appended
C19_Witness ==
    /\ rout # NotCalled
    /\ rin.rsi = 70
    /\ rin.bullish = rin.bearish + 5
    /\ rout.bearish = rout.bullish
    /\ rout.warnings = <<>>

(***************************************************************************)
(* Specification of retry_on_error on bounded inputs                       *)
(***************************************************************************)
OutcomeKinds == {"ok", "api", "request", "other"}

\* what the successive invocations of the wrapped function do
Behaviours(kinds, n) ==
    { [k \in 1..n |-> [kind |-> f[k], id |-> k]] : f \in [1..n -> kinds] }

Delays == {1, 2}

InitRetry ==
    /\ qin \in { [max_retries |-> m, delay |-> d, behaviour |-> b] :
                   m \in 0..MaxRetries, d \in Delays,
                   b \in Behaviours(OutcomeKinds, MaxRetries) }
    /\ qout = NotCalled
    /\ AnalysisIdle /\ BatchIdle /\ TradeIdle /\ OtherIdle

CallWrapped ==
    /\ qout = NotCalled
    /\ qout' = retry_on_error(qin.max_retries, qin.delay, qin.behaviour)
    /\ UNCHANGED <<qin, analysisVars, batchVars, tradeVars, telegramVars, reportVars, loopVars>>

NextRetry == CallWrapped

SpecRetry == InitRetry /\ [][NextRetry]_vars

(***************************************************************************)
(* Properties of retry_on_error (specification SpecRetry)                  *)
(***************************************************************************)
Calls(events) == { k \in 1..Len(events) : events[k].what = "call" }
Sleeps(events) == { k \in 1..Len(events) : events[k].what = "sleep" }

IsBinance(o) == o.kind \in {"api", "request"}

\* the first invocation that does not end in a Binance exception, 0 if none
FirstStop ==
    LET stops == { k \in 1..qin.max_retries : ~IsBinance(qin.behaviour[k]) }
    IN  IF stops = {} THEN 0 ELSE SetMin(stops)

\* C23: the wrapper invokes the function at most max_retries times and
\* again only after a BinanceAPIException or BinanceRequestException,
\* sleeping delay*2^attempt between two attempts and not after the last
\* one; the first successful attempt returns its value with no further
\* attempt; any other exception propagates at once; after max_retries
\* Binance failures the last of these exceptions is raised.
C23_RetryOnBinanceErrors ==
    qout # NotCalled =>
        LET ev == qout.events
            n == Cardinality(Calls(ev))
            max == qin.max_retries
        IN  /\ n <= max
            /\ \A k \in 1..n :
                  /\ ev[2 * k - 1] = Call(k)
                  /\ k < n => /\ IsBinance(qin.behaviour[k])
                              /\ ev[2 * k] = Sleep(qin.delay * Pow2(k - 1))
            /\ max >= 1 => Len(ev) = 2 * n - 1
            /\ (max >= 1 /\ FirstStop = 0) =>
                  n = max /\ qout.result = Raise(qin.behaviour[max])
            /\ FirstStop > 0 =>
                  /\ n = FirstStop
                  /\ qout.result =
                        IF qin.behaviour[n].kind = "ok"
                          THEN Return(qin.behaviour[n])
                          ELSE Raise(qin.behaviour[n])

\* three Binance failures with delay 2: sleeps of 2 and 4, none after the
\* last attempt, and the third exception reaches the caller
C23_Witness ==
    /\ qout # NotCalled
    /\ qin.max_retries = 3 /\ qin.delay = 2
    /\ qout.events = <<Call(1), Sleep(2), Call(2), Sleep(4), Call(3)>>
    /\ qout.result = Raise([kind |-> "request", id |-> 3])

(***************************************************************************)
(* Specification of analyze_multiple and run_analysis: one call of either  *)
(* on a list of symbols, each of which fails or yields a candle series     *)
(***************************************************************************)
Outcomes ==
    {Raises("timed out")} \cup { Fetches(i) : i \in 1..Len(BatchSeries) }

\* for run_analysis: a failure, the series of 199 candles and one series for
\* each class the trading rules tell apart
RunOutcomes ==
    {Raises("timed out")} \cup { Fetches(i) : i \in {1, 3, 4, 6, 8, 9} }

SymbolNames == <<"BTCUSDT", "ETHUSDT", "BNBUSDT", "SOLUSDT">>
SymbolList(n) ==
    [k \in 1..n |-> SymbolNames[((k - 1) % Len(SymbolNames)) + 1]]

\* the exchange accepts every order / rejects the first request / the
\* client was never connected
Exchange(first) ==
    [k \in 1..PlaceOrderRetries |->
        [kind |-> IF k = 1 THEN first ELSE "ok", id |-> k]]
RunClients ==
    { [present |-> TRUE, free |-> 1000, create_order |-> Exchange("ok")],
      [present |-> TRUE, free |-> 1000, create_order |-> Exchange("api")],
      [present |-> FALSE, free |-> 0, create_order |-> Exchange("ok")] }

InitRun ==
    /\ \E n \in 0..MaxSymbols, a \in BOOLEAN, p \in BOOLEAN, c \in RunClients :
          \E o \in [1..n -> RunOutcomes] :
              bin = [n |-> n, symbols |-> SymbolList(n), outcomes |-> o,
                     AUTO_TRADE |-> a, PAPER_TRADING |-> p,
                     client |-> c, telegram_notifier |-> TRUE]
    /\ bout = NotCalled
    /\ AnalysisIdle /\ RetryIdle /\ TradeIdle /\ OtherIdle

\* results = await analyze_multiple(symbols, "1h")
AnalyzeMultiple ==
    /\ bout = NotCalled
    /\ bout' = analyze_multiple(bin.symbols, bin.outcomes)
    /\ UNCHANGED <<bin, analysisVars, retryVars, tradeVars, telegramVars, reportVars, loopVars>>

\* results = await run_analysis(symbols, timeframe)
RunAnalysis ==
    /\ bout = NotCalled
    /\ bout' = run_analysis(bin, bin.telegram_notifier)
    /\ UNCHANGED <<bin, analysisVars, retryVars, tradeVars, telegramVars, reportVars, loopVars>>

NextRun == AnalyzeMultiple \/ RunAnalysis

SpecRun == InitRun /\ [][NextRun]_vars

(***************************************************************************)
(* Specification of analyze_multiple alone, as test_multiple calls it, on  *)
(* every list of outcomes; the trading flags keep their defaults           *)
(***************************************************************************)
InitBatch ==
    /\ \E n \in 0..MaxSymbols :
          \E o \in [1..n -> Outcomes] :
              bin = [n |-> n, symbols |-> SymbolList(n), outcomes |-> o,
                     AUTO_TRADE |-> FALSE, PAPER_TRADING |-> TRUE,
                     client |-> [present |-> FALSE, free |-> 0,
                                 create_order |-> Exchange("ok")],
                     telegram_notifier |-> TRUE]
    /\ bout = NotCalled
    /\ AnalysisIdle /\ RetryIdle /\ TradeIdle /\ OtherIdle

NextBatch == AnalyzeMultiple

SpecBatch == InitBatch /\ [][NextBatch]_vars

(***************************************************************************)
(* Specification of execute_trade: one call on a result of analyze         *)
(***************************************************************************)
TradeResults == { analyze(BatchSeries[i], 0) : i \in 1..Len(BatchSeries) }

TradeClients ==
    { [present |-> p, free |-> f, create_order |-> b] :
        p \in BOOLEAN, f \in {0, 1000},
        b \in Behaviours(OutcomeKinds, PlaceOrderRetries) }

InitTrade ==
    /\ ein \in [symbol : {"BTCUSDT"}, result : TradeResults,
                PAPER_TRADING : BOOLEAN, client : TradeClients,
                telegram_notifier : BOOLEAN]
    /\ eout = NotCalled
    /\ AnalysisIdle /\ RetryIdle /\ BatchIdle /\ OtherIdle

\* await execute_trade(symbol, result)
ExecuteTrade ==
    /\ eout = NotCalled
    /\ eout' = execute_trade(ein.symbol, ein.result, ein.PAPER_TRADING,
                             ein.client, ein.telegram_notifier)
    /\ UNCHANGED <<ein, analysisVars, retryVars, batchVars, telegramVars, reportVars, loopVars>>

NextTrade == ExecuteTrade

SpecTrade == InitTrade /\ [][NextTrade]_vars

(***************************************************************************)
(* Properties of analyze_multiple and run_analysis (specifications SpecRun *)
(* and SpecBatch)                                                          *)
(***************************************************************************)
\* a result without the time it was made at
Core(r) == [f \in DOMAIN r \ {"timestamp"} |-> r[f]]

\* what the caller is owed for the symbol at position k
Owed(k) ==
    IF bin.outcomes[k].raises
      THEN [symbol |-> bin.symbols[k], signal |-> "ERROR",
            error |-> bin.outcomes[k].error]
      ELSE Core(analyze([BatchSeries[bin.outcomes[k].series]
                            EXCEPT !.symbol = bin.symbols[k]], 0))

\* C21: whichever analyses raise, analyze_multiple and run_analysis analyse
\* every symbol of the list exactly once, in order, and return exactly one
\* result per symbol: the real result where the analysis succeeded and a
\* placeholder with signal ERROR where it failed (run_analysis in the order
\* of the list, analyze_multiple in its sorted order).
C21_OneResultPerSymbol ==
    bout # NotCalled =>
        LET n == Len(bin.symbols)
            owed == [k \in 1..n |-> Owed(k)]
            got == [j \in 1..Len(bout.results) |-> Core(bout.results[j])]
        IN  /\ bout.analysed = bin.symbols
            /\ Len(bout.results) = n
            /\ bout.handler = "run_analysis" => got = owed
            /\ \A k \in 1..n :
                  Cardinality({ j \in 1..n : got[j] = owed[k] })
                      = Cardinality({ m \in 1..n : owed[m] = owed[k] })

\* run_analysis on three symbols of which the first two fail: the third is
\* analysed all the same
C21_Witness ==
    /\ bout # NotCalled
    /\ bout.handler = "run_analysis"
    /\ Len(bin.symbols) = 3
    /\ bin.outcomes[1].raises /\ bin.outcomes[2].raises
    /\ ~bin.outcomes[3].raises
    /\ bout.analysed = <<"BTCUSDT", "ETHUSDT", "BNBUSDT">>
    /\ bout.results[1].signal = "ERROR"
    /\ bout.results[2].signal = "ERROR"
    /\ bout.results[3].signal = "STRONG_SELL"

ClassOrder ==
    <<"STRONG_BUY", "BUY", "WEAK_BUY", "HOLD", "WEAK_SELL", "SELL",
      "STRONG_SELL", "ERROR">>
ClassRank(signal) == CHOOSE k \in 1..Len(ClassOrder) : ClassOrder[k] = signal

\* C22: the list analyze_multiple returns is sorted by signal class in the
\* order STRONG_BUY, BUY, WEAK_BUY, HOLD, WEAK_SELL, SELL, STRONG_SELL,
\* ERROR, so every ERROR placeholder follows every real signal, and real
\* results of one class are in non-increasing order of confidence.
C22_SortedByClassThenConfidence ==
    (bout # NotCalled /\ bout.handler = "analyze_multiple") =>
        \A j, k \in 1..Len(bout.results) :
            j < k =>
                LET x == bout.results[j]
                    y == bout.results[k]
                IN  /\ ClassRank(x.signal) <= ClassRank(y.signal)
                    /\ x.signal = "ERROR" => y.signal = "ERROR"
                    /\ (x.signal = y.signal /\ x.signal # "ERROR") =>
                          x.confidence >= y.confidence

\* the failed first symbol is returned last, and the two STRONG_BUY results
\* change places because the later one is the more confident
C22_Witness ==
    /\ bout # NotCalled
    /\ bout.handler = "analyze_multiple"
    /\ Len(bout.results) = 3
    /\ bin.outcomes[1].raises
    /\ bout.results[3].signal = "ERROR"
    /\ bout.results[1].signal = "STRONG_BUY"
    /\ bout.results[2].signal = "STRONG_BUY"
    /\ bout.results[1].symbol = bin.symbols[3]
    /\ bout.results[2].symbol = bin.symbols[2]
    /\ bout.results[1].confidence > bout.results[2].confidence

\* the signal run_analysis computed for a symbol
SignalOf(symbol) ==
    LET k == CHOOSE m \in 1..Len(bin.symbols) : bin.symbols[m] = symbol
    IN  bout.results[k].signal

\* C25: a real order is placed only when PAPER_TRADING is false, AUTO_TRADE
\* is true and the signal is STRONG_BUY (a BUY order) or STRONG_SELL (a SELL
\* order); with PAPER_TRADING true place_market_order is never called; and
\* HOLD, WEAK_BUY and WEAK_SELL produce no trade, real or simulated.
C25_RealOrdersOnlyLiveStrong ==
    (bout # NotCalled /\ bout.handler = "run_analysis") =>
        \A k \in 1..Len(bout.trades) :
            LET t == bout.trades[k]
            IN  /\ \A j \in 1..Len(t.orders) :
                      /\ ~bin.PAPER_TRADING
                      /\ bin.AUTO_TRADE
                      /\ \/ /\ SignalOf(t.orders[j].symbol) = "STRONG_BUY"
                            /\ t.orders[j].side = "BUY"
                         \/ /\ SignalOf(t.orders[j].symbol) = "STRONG_SELL"
                            /\ t.orders[j].side = "SELL"
                /\ t.orders = <<>> => t.requests = <<>>
                /\ bin.PAPER_TRADING => t.orders = <<>>
                /\ \A j \in 1..Len(t.orders \o t.paper) :
                      SignalOf((t.orders \o t.paper)[j].symbol)
                          \notin {"HOLD", "WEAK_BUY", "WEAK_SELL"}

\* live trading: the STRONG_SELL of the second symbol is sold on the
\* exchange, the WEAK_BUY of the first is not traded
C25_Witness ==
    /\ bout # NotCalled
    /\ bout.handler = "run_analysis"
    /\ bin.AUTO_TRADE /\ ~bin.PAPER_TRADING
    /\ Len(bout.results) = 2
    /\ bout.results[1].signal = "WEAK_BUY"
    /\ bout.results[2].signal = "STRONG_SELL"
    /\ Len(bout.trades) = 1
    /\ bout.trades[1].orders = <<[symbol |-> "ETHUSDT", side |-> "SELL"]>>
    /\ Len(bout.trades[1].requests) = 1

(***************************************************************************)
(* Properties of execute_trade (specification SpecTrade)                   *)
(***************************************************************************)
\* C24: one call of execute_trade in live mode sends at most one
\* create_order request, whatever the exchange answers.
C24_AtMostOneOrderRequest ==
    eout # NotCalled => Len(eout.requests) <= 1

(***************************************************************************)
(* telegram_bot.py: handle_rate_limit, send_message, send_photo            *)
(* What one invocation of a decorated function does is                     *)
(* [how |-> "return", value] or [how |-> "raise", kind, retry_after] with  *)
(* kind "RetryAfter", "TelegramError" (any other TelegramError) or "other".*)
(* What the Bot API does with one request is [kind, retry_after] with kind *)
(* "ok" or one of the three exceptions.  RetryAfter is a subclass of       *)
(* TelegramError (telegram.error).                                         *)
(***************************************************************************)
Returned(value) == [how |-> "return", value |-> value]
Raised(kind, retry_after) ==
    [how |-> "raise", kind |-> kind, retry_after |-> retry_after]

\* except RetryAfter / except TelegramError, in this order
RECURSIVE RateLimitLoop(_, _, _, _)
RateLimitLoop(max_retries, behaviour, attempt, events) ==
    IF attempt >= max_retries
      THEN [events |-> events, result |-> Returned("None")]
      ELSE LET o == behaviour[attempt + 1]
               called == Append(events, Call(attempt + 1))
           IN  IF o.how = "return" THEN [events |-> called, result |-> o]
               ELSE IF o.kind = "RetryAfter"
                 THEN RateLimitLoop(max_retries, behaviour, attempt + 1,
                                    Append(called, Sleep(o.retry_after + 1)))
               ELSE IF o.kind = "TelegramError" /\ attempt < max_retries - 1
                 THEN RateLimitLoop(max_retries, behaviour, attempt + 1,
                                    Append(called, Sleep(Pow2(attempt))))
               ELSE [events |-> called, result |-> o]

handle_rate_limit(max_retries, behaviour) ==
    RateLimitLoop(max_retries, behaviour, 0, <<>>)

\* @handle_rate_limit(max_retries=3)
SendRetries == 3

\* the try/except of the bodies of send_message and send_photo:
\* except TelegramError as e: ... return False
SendBody(answer) ==
    IF answer.kind = "ok" THEN Returned("True")
    ELSE IF answer.kind \in {"RetryAfter", "TelegramError"}
      THEN Returned("False")
    ELSE Raised(answer.kind, answer.retry_after)

\* send_message on an enabled notifier: every invocation of the body sends
\* one request
send_message(api) ==
    handle_rate_limit(SendRetries, [k \in 1..SendRetries |-> SendBody(api[k])])

\* send_photo: a missing file returns False before any request
send_photo(api, photo_exists) ==
    handle_rate_limit(SendRetries,
        [k \in 1..SendRetries |->
            IF photo_exists THEN SendBody(api[k]) ELSE Returned("False")])

\* the requests the Bot API received
Requests(method, photo_exists, events) ==
    IF method = "send_photo" /\ ~photo_exists THEN <<>>
    ELSE SelectSeq(events, LAMBDA ev : ev.what = "call")

(***************************************************************************)
(* Specification of send_message and send_photo: one call, the Bot API     *)
(* answering each request in one of four ways                              *)
(***************************************************************************)
AnswerKinds == {"ok", "RetryAfter", "TelegramError", "other"}
RetryAfterValues == {1, 5}

Answers(n) ==
    { [k \in 1..n |->
          [kind |-> f[k],
           retry_after |-> IF f[k] = "RetryAfter" THEN g[k] ELSE 0]] :
        f \in [1..n -> AnswerKinds], g \in [1..n -> RetryAfterValues] }

InitTelegram ==
    /\ nin \in [method : {"send_message", "send_photo"},
                api : Answers(SendRetries),
                photo_exists : BOOLEAN]
    /\ nout = NotCalled
    /\ AnalysisIdle /\ RetryIdle /\ BatchIdle /\ TradeIdle
    /\ ReportIdle /\ LoopIdle

\* await telegram_notifier.send_message(...) / send_photo(...)
Send ==
    /\ nout = NotCalled
    /\ LET done == IF nin.method = "send_message"
                     THEN send_message(nin.api)
                     ELSE send_photo(nin.api, nin.photo_exists)
       IN  nout' = [events |-> done.events,
                    result |-> done.result,
                    requests |-> Requests(nin.method, nin.photo_exists,
                                          done.events)]
    /\ UNCHANGED <<nin, analysisVars, retryVars, batchVars, tradeVars,
                   reportVars, loopVars>>

NextTelegram == Send

SpecTelegram == InitTelegram /\ [][NextTelegram]_vars

(***************************************************************************)
(* Properties of send_message and send_photo (specification SpecTelegram)  *)
(***************************************************************************)
\* C26: when the Bot API answers a request of send_message or send_photo
\* with RetryAfter, the call waits retry_after + 1 seconds and sends again,
\* up to max_retries requests; after another Telegram error it waits
\* 2^attempt seconds and sends again, and it raises after the last attempt.
C26_RateLimitIsRetried ==
    (nout # NotCalled /\ Len(nout.requests) >= 1) =>
        \A k \in 1..Len(nout.requests) :
            LET answer == nin.api[k]
            IN  /\ (answer.kind = "RetryAfter" /\ k < SendRetries) =>
                      /\ Len(nout.requests) > k
                      /\ nout.events[2 * k] = Sleep(answer.retry_after + 1)
                /\ (answer.kind = "TelegramError" /\ k < SendRetries) =>
                      /\ Len(nout.requests) > k
                      /\ nout.events[2 * k] = Sleep(Pow2(k - 1))
                /\ (answer.kind = "TelegramError" /\ k = SendRetries) =>
                      nout.result.how = "raise"

(***************************************************************************)
(* main.py: main, run_continuous, handle_shutdown, cleanup                 *)
(* pc is "init" (before initialize), "start" (inside main's try), "test"   *)
(* (the while condition), "run" (inside run_analysis), "wait" (inside      *)
(* wait_for), "returned" (the run or the loop returned), "raised" (an      *)
(* exception reached main), "failed" (initialize failed: return 1) or      *)
(* "exit" (after cleanup).  Every run analyses the MaxSymbols symbols of   *)
(* args.symbols.                                                           *)
(***************************************************************************)
RunEnded(raised) == [analysed |-> position, raised |-> raised]

\* main touches nothing of the single calls specified above
IdleElsewhere ==
    UNCHANGED <<analysisVars, retryVars, batchVars, tradeVars, telegramVars,
                reportVars>>

\* if not await initialize(): return 1
Initialize ==
    /\ pc = "init"
    /\ pc' \in {"start", "failed"}
    /\ IdleElsewhere
    /\ UNCHANGED <<mode, shutdown_event, run_count, position, runs, waited,
                   set_at, cleaned>>

\* if args.once: await run_analysis(...) else: await run_continuous(...)
Dispatch ==
    /\ pc = "start"
    /\ pc' = IF mode = "once" THEN "run" ELSE "test"
    /\ position' = 0
    /\ IdleElsewhere
    /\ UNCHANGED <<mode, shutdown_event, run_count, runs, waited, set_at,
                   cleaned>>

\* variant: the loop does not look at the event
LoopContinues_Always(event_is_set) == TRUE

\* while not shutdown_event.is_set()
LoopContinues(event_is_set) == ~event_is_set

\* run_count += 1 ... await run_analysis(symbols, timeframe)
StartRun ==
    /\ pc = "test"
    /\ LoopContinues(shutdown_event)
    /\ run_count < MaxRuns
    /\ run_count' = run_count + 1
    /\ position' = 0
    /\ pc' = "run"
    /\ IdleElsewhere
    /\ UNCHANGED <<mode, shutdown_event, runs, waited, set_at, cleaned>>

\* the while condition is false: run_continuous returns
ExitLoop ==
    /\ pc = "test"
    /\ ~LoopContinues(shutdown_event)
    /\ pc' = "returned"
    /\ IdleElsewhere
    /\ UNCHANGED <<mode, shutdown_event, run_count, position, runs, waited,
                   set_at, cleaned>>

\* run_analysis: one pass of for symbol in symbols
AnalyzeSymbol ==
    /\ pc = "run"
    /\ position < MaxSymbols
    /\ position' = position + 1
    /\ IdleElsewhere
    /\ UNCHANGED <<mode, pc, shutdown_event, run_count, runs, waited, set_at,
                   cleaned>>

\* run_analysis returns
EndRun ==
    /\ pc = "run"
    /\ position = MaxSymbols
    /\ runs' = Append(runs, RunEnded(FALSE))
    /\ pc' = IF mode = "once" THEN "returned" ELSE "wait"
    /\ IdleElsewhere
    /\ UNCHANGED <<mode, shutdown_event, run_count, position, waited, set_at,
                   cleaned>>

\* an exception leaves run_analysis: main's except Exception in once mode;
\* in run_continuous the except branch, whose send_error_alert may raise too
RunRaises ==
    /\ pc = "run"
    /\ runs' = Append(runs, RunEnded(TRUE))
    /\ pc' \in IF mode = "once" THEN {"raised"} ELSE {"wait", "raised"}
    /\ IdleElsewhere
    /\ UNCHANGED <<mode, shutdown_event, run_count, position, waited, set_at,
                   cleaned>>

\* except asyncio.TimeoutError: pass
Timeout ==
    /\ pc = "wait"
    /\ ~shutdown_event
    /\ waited' = waited + 1
    /\ pc' = "test"
    /\ IdleElsewhere
    /\ UNCHANGED <<mode, shutdown_event, run_count, position, runs, set_at,
                   cleaned>>

\* shutdown_event.wait() returned: break
WakeUp ==
    /\ pc = "wait"
    /\ shutdown_event
    /\ pc' = "returned"
    /\ IdleElsewhere
    /\ UNCHANGED <<mode, shutdown_event, run_count, position, runs, waited,
                   set_at, cleaned>>

\* handle_shutdown, on SIGINT or SIGTERM
HandleShutdown ==
    /\ pc \notin {"idle", "failed", "exit"}
    /\ ~shutdown_event
    /\ shutdown_event' = TRUE
    /\ set_at' = [set |-> TRUE, pc |-> pc, run_count |-> run_count,
                  position |-> position, waited |-> waited]
    /\ IdleElsewhere
    /\ UNCHANGED <<mode, pc, run_count, position, runs, waited, cleaned>>

\* finally: await cleanup()
Cleanup ==
    /\ pc \in {"returned", "raised"}
    /\ cleaned' = TRUE
    /\ pc' = "exit"
    /\ IdleElsewhere
    /\ UNCHANGED <<mode, shutdown_event, run_count, position, runs, waited,
                   set_at>>

(***************************************************************************)
(* Specification of main: the program's own steps and the signal           *)
(***************************************************************************)
InitLoop ==
    /\ mode \in {"once", "continuous"}
    /\ pc = "init"
    /\ shutdown_event = FALSE
    /\ run_count = 0 /\ position = 0 /\ runs = <<>> /\ waited = 0
    /\ set_at = NotSet /\ cleaned = FALSE
    /\ AnalysisIdle /\ RetryIdle /\ BatchIdle /\ TradeIdle
    /\ TelegramIdle /\ ReportIdle

ProgramStep ==
    \/ Initialize \/ Dispatch \/ StartRun \/ ExitLoop \/ AnalyzeSymbol
    \/ EndRun \/ RunRaises \/ Timeout \/ WakeUp \/ Cleanup

NextLoop == ProgramStep \/ HandleShutdown

SpecLoop == InitLoop /\ [][NextLoop]_vars

\* the event loop runs main's task whenever it can take a step, and the
\* timer of wait_for fires: a step that stays possible is taken
SpecLoopFair == SpecLoop /\ WF_vars(ProgramStep)

(***************************************************************************)
(* Properties of run_continuous and main (specification SpecLoopFair)      *)
(***************************************************************************)
Continuous == mode = "continuous"

\* the run during which the event was set has ended without raising
SetDuringEndedRun ==
    /\ set_at.set /\ set_at.pc = "run"
    /\ Len(runs) >= Max(set_at.run_count, 1)
    /\ ~runs[Max(set_at.run_count, 1)].raised

\* C27: once shutdown_event is set, run_continuous starts no further run:
\* set before the loop, no run is performed; set during a run, that run
\* finishes all its symbols and the loop exits without a wait of the
\* interval; set during the wait, the wait ends and the loop exits.  Every
\* run terminating, run_continuous then returns, and main executes cleanup
\* whenever it leaves its try block, also when the run raised.
C27_ShutdownEndsLoopAndCleansUp ==
    /\ [][(Continuous /\ shutdown_event) =>
              (run_count' = run_count /\ waited' = waited)]_vars
    /\ []((Continuous /\ set_at.set /\ set_at.pc \in {"init", "start", "test"}
             /\ set_at.run_count = 0) => run_count = 0)
    /\ [](SetDuringEndedRun =>
              runs[Max(set_at.run_count, 1)].analysed = MaxSymbols)
    /\ []((Continuous /\ set_at.set) =>
              (run_count = set_at.run_count /\ waited = set_at.waited))
    /\ [](pc = "exit" => cleaned)
    /\ ((Continuous /\ shutdown_event /\ pc \in {"test", "run", "wait"})
           ~> (pc \in {"returned", "raised"}))
    /\ ((pc \in {"returned", "raised"}) ~> (pc = "exit" /\ cleaned))

\* the event was set while the second symbol of the first run was being
\* analysed: the run went through all symbols, no interval was waited for,
\* no second run started, and cleanup was executed
C27_Witness ==
    /\ Continuous /\ pc = "exit" /\ cleaned
    /\ set_at.set /\ set_at.pc = "run" /\ set_at.position = 1
    /\ runs = <<[analysed |-> MaxSymbols, raised |-> FALSE]>>
    /\ run_count = 1 /\ waited = 0

(***************************************************************************)
(* Specification of format_analysis_report: one call on a result that      *)
(* analyze returned or that analyze_multiple put in its list               *)
(***************************************************************************)
ReportTimestamps == {0, 1}
ReportErrors == {"timed out", "Invalid symbol"}

\* what analyze returns for a symbol and a fetched series, and the
\* placeholder analyze_multiple appends when analyze raises
ReportInputs ==
    { AnalysisOf(SymbolNames[k], Fetches(i), t) :
        k \in 1..Len(SymbolNames), i \in 1..Len(BatchSeries), t \in ReportTimestamps }
    \cup
    { ErrorResult(SymbolNames[k], e, t) :
        k \in 1..Len(SymbolNames), e \in ReportErrors, t \in ReportTimestamps }

InitReport ==
    /\ repin \in { [n |-> 1, result |-> r] : r \in ReportInputs }
    /\ repout = NotCalled
    /\ AnalysisIdle /\ RetryIdle /\ BatchIdle /\ TradeIdle /\ TelegramIdle /\ LoopIdle

FormatReport ==
    /\ repout = NotCalled
    /\ repout' = [called |-> TRUE, out |-> format_analysis_report(repin.result)]
    /\ UNCHANGED <<repin, analysisVars, retryVars, batchVars, tradeVars,
                   telegramVars, loopVars>>

NextReport == FormatReport

SpecReport == InitReport /\ [][NextReport]_vars

(***************************************************************************)
(* Properties of format_analysis_report (specification SpecReport)         *)
(***************************************************************************)
\* C29: for every result analyze or analyze_multiple can return (the full
\* result, the insufficient-data HOLD result, the ERROR placeholder)
\* format_analysis_report returns a report and does not raise.
C29_ReportNeverRaises ==
    repout # NotCalled => ~repout.out.raised

====
